---- MODULE Spec2Model ----
(***************************************************************************)
(* State-machine model of the video device plugin: the V4L2 device         *)
(* registry (v4l2_manager.go), the device-plugin gRPC handlers             *)
(* (device_plugin.go), the allocation-tracking registry variant            *)
(* (unnamed/part_001) and the loopback module loader (module_manager.go).  *)
(***************************************************************************)
EXTENDS Integers, Sequences, FiniteSets, TLC

\* utils.go:19 -- first video device number
VideoDeviceStartNumber == 10

\* Bound: config.MaxDevices, the size of the scanned ordinal range.
MaxDevices == 2

\* Bound: the largest number of device ids in one container request.
MaxReqLen == 2

\* Bound: the number of unload/reload sequences that may be in progress at
\* once before the model stops starting further ones.
MaxFlights == 2
MaxStreams == 2

VARIABLES
    nodes,        \* /dev/video<n> -> state of the device node (filesystem + kernel module)
    devices,      \* v4l2Manager.devices : map[string]*VideoDevice
    phase,        \* life cycle of the plugin process: new, running, startFailed,
                  \* exited, stopping.server, stopping.socket, stopped
    socketFile,   \* the file at config.SocketPath: "none", "stale" (left by an
                  \* earlier run) or "listening" (bound by this run's listener)
    server,       \* VideoDevicePlugin.server: none, created, serving, stopped
    registered,   \* VideoDevicePlugin.registered
    kubelet,      \* the node agent: "absent" (no socket file), "refusing"
                  \* (socket there, Register fails) or "accepting"
    monitor,      \* monitorKubeletRestart: off, polling, waiting, registering, done
    stopCh,       \* VideoDevicePlugin.stopCh : "open" or "closed"
    updateCh,     \* VideoDevicePlugin.updateCh : number of buffered signals (capacity 1)
    streams,      \* per ListAndWatch stream: "idle" or "watching"
    held,         \* the records a caller of the registry holds (handles)
    healthy,      \* v4l2Manager.healthy of the allocation-tracking registry
    module,       \* kernel module state and recovery controller
    fallback,     \* fallback mode of the registry: v.fallbackMode, v.fallbackReason
                  \* and the ordinals whose dummy device file exists
    pods,         \* the pods of the node as the API server reports them
    podsCompletedList, \* K8sClient.podsCompletedList : UIDs of pods seen completing
    mu,           \* v4l2Manager.mu while CreateDevices runs statement by statement
    out           \* the observable output of the step just taken

vars == <<nodes, devices, phase, socketFile, server, registered, kubelet, monitor,
          stopCh, updateCh, streams, held, healthy, module, fallback, pods,
          podsCompletedList, mu, out>>

----------------------------------------------------------------------------
(* Identities and the filesystem *)

\* The ordinal range [start, start+MaxDevices) that discovery scans.
Ordinals == VideoDeviceStartNumber .. (VideoDeviceStartNumber + MaxDevices - 1)

\* fmt.Sprintf("video%d", n)
DeviceID(n) == <<"video", n>>

\* fmt.Sprintf("/dev/video%d", n)
DevicePath(n) == <<"/dev/video", n>>

\* A device node is absent, present but not openable, present and openable
\* but stuck in the kernel module (the capability probe fails or times out),
\* or fully working.
NodeStates == {"missing", "unreadable", "stuck", "ok"}

\* The state of the node at a path; paths outside the modelled range do not exist.
NodeAt(path) ==
    IF Len(path) = 2 /\ path[1] = "/dev/video" /\ path[2] \in DOMAIN nodes
    THEN nodes[path[2]]
    ELSE "missing"

\* utils.go checkDeviceExists: os.Stat succeeds
checkDeviceExists(path) == NodeAt(path) # "missing"

\* utils.go checkDeviceReadable: os.Open succeeds
checkDeviceReadable(path) == NodeAt(path) \in {"stuck", "ok"}

\* What exec.CommandContext(ctx, "v4l2-ctl", "--device", path, "--info") and
\* cmd.Output() give: err is "none" (exit 0 before the deadline), "exit" (a
\* non-zero exit), "timeout" (killed at the deadline) or "start" (the
\* command could not be run); output is the set of capability lines printed.
ProbeErrors == {"none", "exit", "timeout", "start"}

CapabilityLines == {"Video Capture", "Video Output"}

ProbeResults == [err : ProbeErrors, output : SUBSET CapabilityLines]

\* The probe of a node in a given state: v4l2-ctl cannot open a node that is
\* missing or unreadable, does not return from one that is stuck, and
\* prints the capabilities of a working one.
v4l2ctl(state) ==
    CASE state = "ok" -> [err |-> "none", output |-> {"Video Capture"}]
      [] state = "stuck" -> [err |-> "timeout", output |-> {}]
      [] OTHER -> [err |-> "exit", output |-> {}]

\* A classification that looks at the output whatever cmd.Output() returned.
ClassifyOutputOnly(probe) == "Video Capture" \in probe.output

\* v4l2_manager.go HasVideoCaptureCapability, from cmd.Output() on: false on
\* any error, otherwise strings.Contains(output, "Video Capture").
Classify(probe) ==
    IF probe.err # "none" THEN FALSE ELSE "Video Capture" \in probe.output

\* v4l2-ctl --info exits 0 within the timeout and prints "Video Capture"
HasVideoCaptureCapability(path) == Classify(v4l2ctl(NodeAt(path)))

----------------------------------------------------------------------------
(* Errors and outputs *)

NoError == [msg |-> "", id |-> <<>>, cause |-> ""]

\* fmt.Errorf("device not found: %s", deviceID)
DeviceNotFound(deviceID) == [msg |-> "device not found", id |-> deviceID, cause |-> ""]

\* At most this many pods are created on the node.
MaxPods == 3

\* The UIDs of the pods.
PodUIDs == 1..MaxPods

\* A pod the API server does not know (yet): no phase, no device handed to
\* it, and no ReleaseDevice call made on its behalf so far.
NoPod == [phase |-> "none", device |-> <<>>, released |-> 0]

NoPods == [uid \in PodUIDs |-> NoPod]

\* The registry is not in fallback mode and no dummy device file exists.
NoFallback == [mode |-> FALSE, reason |-> "", files |-> {}]

NoOut ==
    [op |-> "none", stream |-> 0, req |-> <<>>, err |-> NoError,
     resp |-> <<>>, list |-> {}]

----------------------------------------------------------------------------
(* Device registry: v4l2Manager *)

\* types.go VideoDevice{ID, Path, Allocated}; a struct literal that names
\* only ID and Path leaves Allocated at its zero value.
VideoDevice(id, path, allocated) == [ID |-> id, Path |-> path, Allocated |-> allocated]

\* The empty map built by make(map[string]*VideoDevice).
EmptyRegistry == [id \in {} |-> VideoDevice(<<>>, <<>>, FALSE)]

\* v.mu is free: no CreateDevices is between its Lock and its Unlock, no
\* reader is waiting for it, and complete is the device set the last
\* CreateDevices left when it returned.
Unlocked(registry) ==
    [writer |-> FALSE, i |-> 0, count |-> 0, waiting |-> FALSE, served |-> FALSE,
     complete |-> registry]

\* A scan of the range [start, start+count], one ordinal too many.
DiscoveredOrdinalsInclusive(count) ==
    {n \in VideoDeviceStartNumber .. (VideoDeviceStartNumber + count) :
        checkDeviceExists(DevicePath(n)) /\ checkDeviceReadable(DevicePath(n))}

\* The ordinals CreateDevices(count) registers: those of [start, start+count)
\* whose node exists and is readable.
DiscoveredOrdinals(count) ==
    {n \in VideoDeviceStartNumber .. (VideoDeviceStartNumber + count - 1) :
        checkDeviceExists(DevicePath(n)) /\ checkDeviceReadable(DevicePath(n))}

\* A discovery that registers only what is not registered yet and drops
\* what is (its result depends on the registry it starts from).
DiscoveredRegistryToggling(count) ==
    [id \in {DeviceID(n) : n \in DiscoveredOrdinals(count)} \ DOMAIN devices |->
        LET n == CHOOSE m \in DiscoveredOrdinals(count) : DeviceID(m) = id
        IN  VideoDevice(DeviceID(n), DevicePath(n), FALSE)]

\* A discovery that keeps what an earlier call registered.
DiscoveredRegistryAdditive(count) ==
    [id \in {DeviceID(n) : n \in DiscoveredOrdinals(count)} \cup DOMAIN devices |->
        IF id \in DOMAIN devices THEN devices[id]
        ELSE LET n == CHOOSE m \in DiscoveredOrdinals(count) : DeviceID(m) = id
             IN  VideoDevice(DeviceID(n), DevicePath(n), FALSE)]

\* A discovery that keeps the registry it started from when it finds no
\* device.
DiscoveredRegistryRetaining(count) ==
    IF DiscoveredOrdinals(count) = {} THEN devices
    ELSE [id \in {DeviceID(n) : n \in DiscoveredOrdinals(count)} |->
            LET n == CHOOSE m \in DiscoveredOrdinals(count) : DeviceID(m) = id
            IN  VideoDevice(DeviceID(n), DevicePath(n), FALSE)]

\* The map CreateDevices(count) builds: key video<n> -> {ID: video<n>, Path: /dev/video<n>}.
DiscoveredRegistry(count) ==
    [id \in {DeviceID(n) : n \in DiscoveredOrdinals(count)} |->
        LET n == CHOOSE m \in DiscoveredOrdinals(count) : DeviceID(m) = id
        IN  VideoDevice(DeviceID(n), DevicePath(n), FALSE)]

\* fmt.Errorf("no video devices were found")
NoDevicesFound == [msg |-> "no video devices were found", id |-> <<>>, cause |-> ""]

\* A handle is what a caller keeps of a registry call's result: one record or
\* one map, which either aliases the registry's own object or is a private copy.
\* written tells what the caller has done to the object since it got it.
NoHandle ==
    [kind |-> "none", key |-> <<>>, aliases |-> FALSE, from |-> "none", written |-> "none"]

RecordHandle(id, aliases, from) ==
    [kind |-> "record", key |-> id, aliases |-> aliases, from |-> from, written |-> "none"]

MapHandle(aliases, from) ==
    [kind |-> "map", key |-> <<>>, aliases |-> aliases, from |-> from, written |-> "none"]

\* Replacing v.devices by a new map leaves every object a caller still holds
\* unreachable from the registry.
Orphaned(h) == IF h.kind = "none" THEN h ELSE [h EXCEPT !.aliases = FALSE]

PluginUnchanged ==
    UNCHANGED <<phase, socketFile, server, registered, kubelet, monitor,
                stopCh, updateCh, streams>>

\* A discovery that fails whenever it finds fewer devices than requested.
CreateDevicesErrorStrict(count) ==
    IF Cardinality(DiscoveredOrdinals(count)) < count THEN NoDevicesFound ELSE NoError

\* v4l2_manager.go CreateDevices, its return value: an error exactly when
\* the map is empty after the scan; fewer than count is only a warning.
CreateDevicesError(count) ==
    IF DiscoveredOrdinals(count) = {} THEN NoDevicesFound ELSE NoError

\* v4l2_manager.go CreateDevices: clear the map, scan the range, register what
\* exists and is readable, fail when nothing was found.  chmodFailed is the
\* set of ordinals whose os.Chmod fails: that is logged and nothing else.
CreateDevices(count, chmodFailed) ==
    /\ devices' = DiscoveredRegistry(count)
    /\ held' = Orphaned(held)
    /\ out' = [NoOut EXCEPT !.op = "CreateDevices", !.req = <<count, chmodFailed>>,
                            !.err = CreateDevicesError(count)]
    /\ PluginUnchanged
    /\ UNCHANGED <<nodes, healthy, module, fallback, pods, podsCompletedList, mu>>

\* v4l2_manager.go GetDeviceByID: the result of the lookup, a fresh
\* &VideoDevice{ID, Path} or a not-found error.
GetDeviceByIDResult(deviceID) ==
    IF deviceID \in DOMAIN devices
    THEN [err |-> NoError,
          rec |-> VideoDevice(devices[deviceID].ID, devices[deviceID].Path, FALSE)]
    ELSE [err |-> DeviceNotFound(deviceID), rec |-> VideoDevice(<<>>, <<>>, FALSE)]

\* A variant of GetDeviceByID that returns the registry's own record.
GetDeviceByIDInternal(deviceID) == RecordHandle(deviceID, TRUE, "GetDeviceByID")

\* What GetDeviceByID hands to its caller: a pointer to the fresh copy.
GetDeviceByIDHandle(deviceID) == RecordHandle(deviceID, FALSE, "GetDeviceByID")

\* v4l2_manager.go ListAllDevices: a fresh map of fresh copies.
ListAllDevices ==
    [id \in DOMAIN devices |-> VideoDevice(devices[id].ID, devices[id].Path, FALSE)]

\* What ListAllDevices hands to its caller: the fresh map, whose entries are
\* pointers to fresh copies.
ListAllDevicesMapHandle == MapHandle(FALSE, "ListAllDevices")

ListAllDevicesEntryHandle(deviceID) == RecordHandle(deviceID, FALSE, "ListAllDevices")

\* v4l2_manager.go GetDeviceHealth: registered, and the node exists and is readable.
GetDeviceHealth(deviceID) ==
    /\ deviceID \in DOMAIN devices
    /\ checkDeviceExists(devices[deviceID].Path)
    /\ checkDeviceReadable(devices[deviceID].Path)

\* The node at a path exists and can be opened.
NodeUsable(path) == checkDeviceExists(path) /\ checkDeviceReadable(path)

\* v4l2_manager.go IsHealthy: over the registry when it has devices,
\* otherwise over the nodes /dev/video<start+i>, i < maxDevices.
IsHealthy(maxDevices) ==
    IF devices # EmptyRegistry
    THEN \A id \in DOMAIN devices : NodeUsable(devices[id].Path)
    ELSE \A i \in 0 .. (maxDevices - 1) : NodeUsable(DevicePath(VideoDeviceStartNumber + i))

\* v4l2_manager.go GetDeviceCount: len(v.devices) when it has devices,
\* otherwise the number of existing nodes /dev/video<start+i>, i < maxDevices.
GetDeviceCount(maxDevices) ==
    IF devices # EmptyRegistry
    THEN Cardinality(DOMAIN devices)
    ELSE Cardinality({i \in 0 .. (maxDevices - 1) :
                        checkDeviceExists(DevicePath(VideoDeviceStartNumber + i))})

----------------------------------------------------------------------------
(* Device plugin: VideoDevicePlugin *)

\* Bound-independent input sets of the gRPC handlers.
Streams == {1}

UnknownDeviceID == <<"video", 99>>

\* The device ids a node agent may name in a request: ids of the scanned
\* range and one id that discovery never produces.
ReqIDs == {DeviceID(VideoDeviceStartNumber), DeviceID(VideoDeviceStartNumber + 1),
           UnknownDeviceID}

\* Sequences of at most n pairwise distinct elements of S.
SeqsUpTo(S, n) ==
    {q \in UNION {[1..k -> S] : k \in 0..n} :
        \A i, j \in 1..Len(q) : i # j => q[i] # q[j]}

\* ContainerAllocateRequest.DevicesIDs
ContainerRequests == SeqsUpTo(ReqIDs, MaxReqLen)

\* AllocateRequest.ContainerRequests: one container with up to MaxReqLen ids,
\* or two containers with one id each.
AllocateRequests ==
    {<<c>> : c \in ContainerRequests}
    \cup {<<<<p[1]>>, <<p[2]>>>> : p \in {q \in ReqIDs \X ReqIDs : q[1] # q[2]}}

RegistryUnchanged == UNCHANGED <<nodes, devices, held, healthy, module, fallback, pods, podsCompletedList, mu>>

\* A cleanupSocket that leaves whatever file is there.
cleanupSocketSkipped(file, removeOk) == file

\* utils.go cleanupSocket: the file at the socket path afterwards; os.Remove
\* of an existing file may fail (removeOk = FALSE).
cleanupSocket(file, removeOk) ==
    IF file = "none" THEN "none"
    ELSE IF removeOk THEN "none" ELSE file

\* device_plugin.go RegisterWithKubelet, when p.registered is false: dial
\* the kubelet socket and send Register; it succeeds when the kubelet accepts.
RegisterSucceeds == kubelet = "accepting"

\* How far Start gets (out.req keeps its inputs and the file it found): ensureDirectory, cleanupSocket (a failure is only
\* logged), net.Listen (fails on a path that still holds a file, or for a
\* reason of its own), RegisterWithKubelet.
StartOutcome(mkdirOk, removeOk, listenOk) ==
    IF ~mkdirOk THEN "mkdirFailed"
    ELSE IF cleanupSocket(socketFile, removeOk) # "none" \/ ~listenOk THEN "listenFailed"
    ELSE IF ~RegisterSucceeds THEN "registerFailed"
    ELSE "ok"

\* device_plugin.go Start.  When Start returns an error the server and the
\* socket are left as they are at that point.
Start(mkdirOk, removeOk, listenOk) ==
    /\ phase = "new"
    /\ phase' = IF StartOutcome(mkdirOk, removeOk, listenOk) = "ok"
                THEN "running" ELSE "startFailed"
    /\ socketFile' =
         CASE StartOutcome(mkdirOk, removeOk, listenOk) = "mkdirFailed" -> socketFile
           [] StartOutcome(mkdirOk, removeOk, listenOk) = "listenFailed" ->
                cleanupSocket(socketFile, removeOk)
           [] OTHER -> "listening"
    /\ server' =
         CASE StartOutcome(mkdirOk, removeOk, listenOk) = "mkdirFailed" -> server
           [] StartOutcome(mkdirOk, removeOk, listenOk) = "listenFailed" -> "created"
           [] OTHER -> "serving"
    /\ registered' = (StartOutcome(mkdirOk, removeOk, listenOk) = "ok")
    /\ monitor' = IF StartOutcome(mkdirOk, removeOk, listenOk) = "ok"
                  THEN "polling" ELSE monitor
    /\ out' = [NoOut EXCEPT !.op = "Start", !.req = <<mkdirOk, removeOk, listenOk, socketFile>>,
                 !.err = IF StartOutcome(mkdirOk, removeOk, listenOk) = "ok" THEN NoError
                         ELSE [msg |-> StartOutcome(mkdirOk, removeOk, listenOk),
                               id |-> <<>>, cause |-> ""]]
    /\ UNCHANGED <<kubelet, stopCh, updateCh, streams>>
    /\ RegistryUnchanged

\* main.go: Start returned an error, the process ends with os.Exit(1).
\* Nothing is cleaned up on that path.
ExitOnStartError ==
    /\ phase = "startFailed"
    /\ phase' = "exited"
    /\ out' = [NoOut EXCEPT !.op = "Exit"]
    /\ UNCHANGED <<socketFile, server, registered, kubelet, monitor,
                   stopCh, updateCh, streams>>
    /\ RegistryUnchanged

\* The monitor is inside RegisterWithKubelet with p.mu held, its Register
\* request sent and not returned yet ("hung": it never will).
MonitorHoldsMu == monitor \in {"inflight", "hung"}

\* device_plugin.go Stop is called and reaches p.mu.Lock().
StopCalled ==
    /\ phase = "running"
    /\ phase' = "stopping"
    /\ out' = [NoOut EXCEPT !.op = "Stop.called"]
    /\ UNCHANGED <<socketFile, server, registered, kubelet, monitor, stopCh, updateCh, streams>>
    /\ RegistryUnchanged

\* device_plugin.go Stop, first statement: p.server.Stop() closes the
\* listener, which unlinks the socket file it had bound, and every connection.
StopServer ==
    /\ phase \in {"running", "stopping"}
    /\ ~MonitorHoldsMu
    /\ stopCh = "open"
    /\ phase' = "stopping.server"
    /\ server' = "stopped"
    /\ socketFile' = IF socketFile = "listening" THEN "none" ELSE socketFile
    /\ out' = [NoOut EXCEPT !.op = "Stop.server"]
    /\ UNCHANGED <<registered, kubelet, monitor, stopCh, updateCh, streams>>
    /\ RegistryUnchanged

\* device_plugin.go Stop, second statement: cleanupSocket(p.config.SocketPath)
StopCleanupSocket(removeOk) ==
    /\ phase = "stopping.server"
    /\ phase' = "stopping.socket"
    /\ socketFile' = cleanupSocket(socketFile, removeOk)
    /\ out' = [NoOut EXCEPT !.op = "Stop.cleanupSocket"]
    /\ UNCHANGED <<server, registered, kubelet, monitor, stopCh, updateCh, streams>>
    /\ RegistryUnchanged

\* device_plugin.go Stop, third statement: close(p.stopCh)
StopCloseStopCh ==
    /\ phase = "stopping.socket"
    /\ phase' = "stopped"
    /\ stopCh' = "closed"
    /\ out' = [NoOut EXCEPT !.op = "Stop"]
    /\ UNCHANGED <<socketFile, server, registered, kubelet, monitor, updateCh, streams>>
    /\ RegistryUnchanged

\* device_plugin.go Stop: its three statements in order, under p.mu.
Stop ==
    \/ StopServer
    \/ \E removeOk \in BOOLEAN : StopCleanupSocket(removeOk)
    \/ StopCloseStopCh

\* device_plugin.go sendDeviceList: the Devices of the ListAndWatchResponse.
DeviceList ==
    {[ID |-> ListAllDevices[id].ID, Health |-> "Healthy"] :
        id \in {k \in DOMAIN ListAllDevices : ~ListAllDevices[k].Allocated}}

TransportError == [msg |-> "send failed", id |-> <<>>, cause |-> ""]

\* A send whose failure ends every open stream.
SendOnEndingAll(s, sendOk) ==
    /\ sendOk => phase = "running"
    /\ streams' = IF sendOk THEN [streams EXCEPT ![s] = "watching"]
                  ELSE [t \in DOMAIN streams |-> "idle"]
    /\ out' = IF sendOk
              THEN [NoOut EXCEPT !.op = "send", !.stream = s, !.list = DeviceList]
              ELSE [NoOut EXCEPT !.op = "ListAndWatch.return", !.stream = s,
                                 !.err = TransportError]

\* One sendDeviceList on stream s inside ListAndWatch.  stream.Send can
\* succeed only while the server serves; when it fails ListAndWatch returns
\* the error and the stream ends.
SendOn(s, sendOk) ==
    /\ sendOk => phase = "running"
    /\ streams' = [streams EXCEPT ![s] = IF sendOk THEN "watching" ELSE "idle"]
    /\ out' = IF sendOk
              THEN [NoOut EXCEPT !.op = "send", !.stream = s, !.list = DeviceList]
              ELSE [NoOut EXCEPT !.op = "ListAndWatch.return", !.stream = s,
                                 !.err = TransportError]

\* ListAndWatch is called: the initial device list is sent.
ListAndWatchOpen(s, sendOk) ==
    /\ phase = "running"
    /\ streams[s] = "idle"
    /\ SendOn(s, sendOk)
    /\ UNCHANGED <<phase, socketFile, server, registered, kubelet, monitor,
                   stopCh, updateCh>>
    /\ RegistryUnchanged

\* select case <-ticker.C
ListAndWatchTick(s, sendOk) ==
    /\ streams[s] = "watching"
    /\ SendOn(s, sendOk)
    /\ UNCHANGED <<phase, socketFile, server, registered, kubelet, monitor,
                   stopCh, updateCh>>
    /\ RegistryUnchanged

\* select case <-p.updateCh
ListAndWatchUpdate(s, sendOk) ==
    /\ streams[s] = "watching"
    /\ updateCh > 0
    /\ updateCh' = updateCh - 1
    /\ SendOn(s, sendOk)
    /\ UNCHANGED <<phase, socketFile, server, registered, kubelet, monitor, stopCh>>
    /\ RegistryUnchanged

\* select case <-p.stopCh
ListAndWatchStop(s) ==
    /\ streams[s] = "watching"
    /\ stopCh = "closed"
    /\ streams' = [streams EXCEPT ![s] = "idle"]
    /\ out' = [NoOut EXCEPT !.op = "ListAndWatch.return", !.stream = s]
    /\ UNCHANGED <<phase, socketFile, server, registered, kubelet, monitor,
                   stopCh, updateCh>>
    /\ RegistryUnchanged

\* v4l2Manager.AllocateDevice(deviceID), the lookup allocateContainer calls:
\* the record of the requested id, or a not-found error.  No allocated/free
\* bit is flipped: allocation is answered from device identity alone.
AllocateDevice(deviceID) ==
    IF deviceID \in DOMAIN devices
    THEN [err |-> NoError,
          rec |-> VideoDevice(devices[deviceID].ID, devices[deviceID].Path,
                              devices[deviceID].Allocated)]
    ELSE [err |-> DeviceNotFound(deviceID), rec |-> VideoDevice(<<>>, <<>>, FALSE)]

\* &pluginapi.ContainerAllocateResponse{} returned for an empty id list
EmptyContainerResponse == [Devices |-> <<>>, Envs |-> {}]

\* A response that mounts the device at a fixed container path instead of
\* its host path (a variant the mount-path properties must reject).
ContainerResponseFixedPath(device) ==
    [Devices |-> <<[ContainerPath |-> <<"/dev/video", 0>>, HostPath |-> device.Path,
                    Permissions |-> "rw"]>>,
     Envs |-> {<<"VIDEO_DEVICE", device.Path>>}]

\* device_plugin.go allocateContainer, the response built for a device:
\* one DeviceSpec mounting device.Path at the same path, and VIDEO_DEVICE.
ContainerResponse(device) ==
    [Devices |-> <<[ContainerPath |-> device.Path, HostPath |-> device.Path,
                    Permissions |-> "rw"]>>,
     Envs |-> {<<"VIDEO_DEVICE", device.Path>>}]

\* A variant of allocateContainer that signals updateCh before it looks the
\* device up, so that a failed lookup still wakes the streams.
allocateContainerSignalFirst(req) ==
    IF Len(req) = 0
    THEN [err |-> NoError, resp |-> EmptyContainerResponse, signal |-> FALSE]
    ELSE LET deviceID == req[1]
             r == AllocateDevice(deviceID)
         IN  IF r.err # NoError
             THEN [err |-> [msg |-> "failed to allocate device", id |-> deviceID,
                            cause |-> r.err.msg],
                   resp |-> EmptyContainerResponse, signal |-> TRUE]
             ELSE [err |-> NoError, resp |-> ContainerResponse(r.rec),
                   signal |-> TRUE]

\* device_plugin.go allocateContainer: the id looked up is DevicesIDs[0];
\* signal tells whether the non-blocking send on updateCh was attempted.
allocateContainer(req) ==
    IF Len(req) = 0
    THEN [err |-> NoError, resp |-> EmptyContainerResponse, signal |-> FALSE]
    ELSE LET deviceID == req[1]
             r == AllocateDevice(deviceID)
         IN  IF r.err # NoError
             THEN [err |-> [msg |-> "failed to allocate device", id |-> deviceID,
                            cause |-> r.err.msg],
                   resp |-> EmptyContainerResponse, signal |-> FALSE]
             ELSE [err |-> NoError, resp |-> ContainerResponse(r.rec),
                   signal |-> TRUE]

\* Index of the first container request of reqs that fails, or 0.
FirstFailure(reqs) ==
    LET failing == {i \in 1..Len(reqs) : allocateContainer(reqs[i]).err # NoError}
    IN  IF failing = {} THEN 0
        ELSE CHOOSE i \in failing : \A j \in failing : i <= j

\* The container requests the loop of Allocate processes without error.
Processed(reqs) ==
    IF FirstFailure(reqs) = 0 THEN 1..Len(reqs) ELSE 1..(FirstFailure(reqs) - 1)

\* The container requests allocateContainer is called on: the processed ones
\* and the first failing one.
Attempted(reqs) ==
    IF FirstFailure(reqs) = 0 THEN 1..Len(reqs) ELSE 1..FirstFailure(reqs)

\* device_plugin.go Allocate: every container request in turn; the first
\* error ends the call with a nil response.
AllocateResult(reqs) ==
    IF FirstFailure(reqs) = 0
    THEN [err |-> NoError,
          resp |-> [i \in 1..Len(reqs) |-> allocateContainer(reqs[i]).resp]]
    ELSE [err |-> allocateContainer(reqs[FirstFailure(reqs)]).err, resp |-> <<>>]

\* A variant of AllocateDevice that tracks allocation: it flips the
\* allocated bit of the record it hands out.
AllocateDeviceMarking(devs, deviceID) ==
    IF deviceID \in DOMAIN devs
    THEN [devs EXCEPT ![deviceID].Allocated = TRUE]
    ELSE devs

\* What AllocateDevice(deviceID) does to the registry: nothing.
AllocateDeviceEffect(devs, deviceID) == devs

\* The registry after the loop of Allocate has processed container requests
\* i, i+1, ... up to the first failing one.
RECURSIVE RegistryAfter(_, _, _)
RegistryAfter(devs, reqs, i) ==
    IF i > Len(reqs) \/ i \notin Processed(reqs)
    THEN devs
    ELSE RegistryAfter(IF Len(reqs[i]) = 0 THEN devs
                       ELSE AllocateDeviceEffect(devs, reqs[i][1]),
                       reqs, i + 1)

\* A send that queues every signal, as on a channel without a capacity limit.
SignalUpdateQueued(ch) == ch + 1

\* select { case p.updateCh <- struct{}{}: default: } on a channel of capacity 1
SignalUpdate(ch) == IF ch < 1 THEN ch + 1 ELSE ch

Allocate(reqs) ==
    /\ phase = "running"
    /\ devices' = RegistryAfter(devices, reqs, 1)
    /\ updateCh' = IF \E i \in Attempted(reqs) : allocateContainer(reqs[i]).signal
                   THEN SignalUpdate(updateCh) ELSE updateCh
    /\ out' = [NoOut EXCEPT !.op = "Allocate", !.req = reqs,
                            !.err = AllocateResult(reqs).err,
                            !.resp = AllocateResult(reqs).resp]
    /\ UNCHANGED <<phase, socketFile, server, registered, kubelet, monitor,
                   stopCh, streams>>
    /\ UNCHANGED <<nodes, held, healthy, module, fallback, pods, podsCompletedList, mu>>

----------------------------------------------------------------------------
(* Environment: the kernel module and the filesystem change device nodes *)

NodeChange(n, st) ==
    /\ nodes[n] # st
    /\ nodes' = [nodes EXCEPT ![n] = st]
    /\ out' = NoOut
    /\ PluginUnchanged
    /\ UNCHANGED <<devices, held, healthy, module, fallback, pods, podsCompletedList, mu>>

----------------------------------------------------------------------------
(* The plugin process: registry, gRPC handlers and environment *)

\* The kernel module is not loaded and no recovery has ever been triggered.
NoModule == [loaded |-> FALSE, state |-> "Stable", flights |-> <<>>]

Init ==
    /\ nodes \in [Ordinals -> NodeStates]
    /\ devices = EmptyRegistry
    /\ phase = "new"
    /\ socketFile \in {"none", "stale"}
    /\ server = "none"
    /\ registered = FALSE
    /\ kubelet \in {"absent", "refusing", "accepting"}
    /\ monitor = "off"
    /\ stopCh = "open"
    /\ updateCh = 0
    /\ streams = [s \in Streams |-> "idle"]
    /\ held = NoHandle
    /\ healthy = FALSE
    /\ module = NoModule
    /\ fallback = NoFallback
    /\ pods = NoPods
    /\ podsCompletedList = {}
    /\ mu = Unlocked(devices)
    /\ out = NoOut

Next ==
    \/ \E n \in Ordinals, st \in NodeStates : NodeChange(n, st)
    \/ \E count \in 1..MaxDevices : CreateDevices(count, {})
    \/ \E mkdirOk \in BOOLEAN, removeOk \in BOOLEAN, listenOk \in BOOLEAN :
          Start(mkdirOk, removeOk, listenOk)
    \/ ExitOnStartError
    \/ StopServer
    \/ \E removeOk \in BOOLEAN : StopCleanupSocket(removeOk)
    \/ StopCloseStopCh
    \/ \E s \in Streams, sendOk \in BOOLEAN : ListAndWatchOpen(s, sendOk)
    \/ \E s \in Streams, sendOk \in BOOLEAN : ListAndWatchTick(s, sendOk)
    \/ \E s \in Streams, sendOk \in BOOLEAN : ListAndWatchUpdate(s, sendOk)
    \/ \E s \in Streams : ListAndWatchStop(s)
    \/ \E reqs \in AllocateRequests : Allocate(reqs)

Spec == Init /\ [][Next]_vars

----------------------------------------------------------------------------
(* Callers of the stateless registry *)

\* Values no discovered device has.
BogusID == <<"bogus", 0>>

BogusPath == <<"/dev/null", 0>>

\* A caller calls GetDeviceByID and keeps the returned pointer (nil on error).
CallGetDeviceByID(deviceID) ==
    /\ held' = IF GetDeviceByIDResult(deviceID).err = NoError
               THEN GetDeviceByIDHandle(deviceID) ELSE NoHandle
    /\ out' = [NoOut EXCEPT !.op = "GetDeviceByID", !.req = <<deviceID>>,
                            !.err = GetDeviceByIDResult(deviceID).err,
                            !.resp = IF GetDeviceByIDResult(deviceID).err = NoError
                                     THEN <<GetDeviceByIDResult(deviceID).rec>> ELSE <<>>]
    /\ PluginUnchanged
    /\ UNCHANGED <<nodes, devices, healthy, module, fallback, pods, podsCompletedList, mu>>

\* A caller asks IsHealthy(maxDevices).
CallIsHealthy(maxDevices) ==
    /\ out' = [NoOut EXCEPT !.op = "IsHealthy", !.req = <<maxDevices>>,
                            !.resp = <<IsHealthy(maxDevices)>>]
    /\ PluginUnchanged
    /\ UNCHANGED <<nodes, devices, held, healthy, module, fallback, pods, podsCompletedList, mu>>

\* A caller asks GetDeviceCount(maxDevices).
CallGetDeviceCount(maxDevices) ==
    /\ out' = [NoOut EXCEPT !.op = "GetDeviceCount", !.req = <<maxDevices>>,
                            !.resp = <<GetDeviceCount(maxDevices)>>]
    /\ PluginUnchanged
    /\ UNCHANGED <<nodes, devices, held, healthy, module, fallback, pods, podsCompletedList, mu>>

\* A caller calls ListAllDevices and keeps the returned map (keep = <<>>) or
\* one of its entries (keep = the entry's key).
CallListAllDevices(keep) ==
    /\ keep \in DOMAIN devices \cup {<<>>}
    /\ held' = IF keep = <<>> THEN ListAllDevicesMapHandle
               ELSE ListAllDevicesEntryHandle(keep)
    /\ out' = [NoOut EXCEPT !.op = "ListAllDevices", !.resp = <<ListAllDevices>>]
    /\ PluginUnchanged
    /\ UNCHANGED <<nodes, devices, healthy, module, fallback, pods, podsCompletedList, mu>>

\* The record rec after an assignment to one of its fields.
WriteField(rec, field) ==
    CASE field = "ID" -> [rec EXCEPT !.ID = BogusID]
      [] field = "Path" -> [rec EXCEPT !.Path = BogusPath]
      [] field = "Allocated" -> [rec EXCEPT !.Allocated = ~rec.Allocated]

\* The caller assigns to a field of the record it holds: the assignment
\* lands in the registry exactly when the held pointer is the registry's own.
CallerWriteRecord(field) ==
    /\ held.kind = "record"
    /\ devices' = IF held.aliases /\ held.key \in DOMAIN devices
                  THEN [devices EXCEPT ![held.key] = WriteField(@, field)]
                  ELSE devices
    /\ held' = [held EXCEPT !.written = field]
    /\ out' = [NoOut EXCEPT !.op = "CallerWrite"]
    /\ PluginUnchanged
    /\ UNCHANGED <<nodes, healthy, module, fallback, pods, podsCompletedList, mu>>

\* The caller deletes an entry of the map it holds.
CallerRemoveEntry(deviceID) ==
    /\ held.kind = "map"
    /\ devices' = IF held.aliases
                  THEN [id \in DOMAIN devices \ {deviceID} |-> devices[id]]
                  ELSE devices
    /\ held' = [held EXCEPT !.written = "remove"]
    /\ out' = [NoOut EXCEPT !.op = "CallerWrite"]
    /\ PluginUnchanged
    /\ UNCHANGED <<nodes, healthy, module, fallback, pods, podsCompletedList, mu>>

\* The caller adds an entry to the map it holds.
CallerAddEntry ==
    /\ held.kind = "map"
    /\ devices' = IF held.aliases
                  THEN [id \in DOMAIN devices \cup {BogusID} |->
                           IF id = BogusID THEN VideoDevice(BogusID, BogusPath, FALSE)
                           ELSE devices[id]]
                  ELSE devices
    /\ held' = [held EXCEPT !.written = "add"]
    /\ out' = [NoOut EXCEPT !.op = "CallerWrite"]
    /\ PluginUnchanged
    /\ UNCHANGED <<nodes, healthy, module, fallback, pods, podsCompletedList, mu>>

NextRegistry ==
    \/ \E n \in Ordinals, st \in NodeStates : NodeChange(n, st)
    \/ \E count \in 1..MaxDevices, chmodFailed \in SUBSET Ordinals :
          CreateDevices(count, chmodFailed)
    \/ \E deviceID \in ReqIDs : CallGetDeviceByID(deviceID)
    \/ \E keep \in ReqIDs \cup {<<>>} : CallListAllDevices(keep)
    \/ \E field \in {"ID", "Path", "Allocated"} : CallerWriteRecord(field)
    \/ \E deviceID \in ReqIDs : CallerRemoveEntry(deviceID)
    \/ CallerAddEntry

SpecRegistry == Init /\ [][NextRegistry]_vars

\* What the lookups of the registry answer.
RegistryView ==
    [list |-> ListAllDevices, byID |-> [id \in ReqIDs |-> GetDeviceByIDResult(id)]]

\* C8: whatever a caller does to a record returned by GetDeviceByID or to a
\* map (or a map entry) returned by ListAllDevices, the registry and the
\* answers of a subsequent ListAllDevices and GetDeviceByID stay as they were.
C8_CopyIsolation ==
    [][out'.op = "CallerWrite" => (devices' = devices /\ RegistryView' = RegistryView)]_vars

\* C8 witness: a caller has just overwritten a field of the record that
\* GetDeviceByID returned for a device that is still registered.
C8_Witness ==
    /\ out.op = "CallerWrite"
    /\ held.kind = "record"
    /\ held.from = "GetDeviceByID"
    /\ held.written = "Path"
    /\ held.key \in DOMAIN devices
    /\ devices[held.key].Path = DevicePath(held.key[2])

----------------------------------------------------------------------------
(* Allocation-tracking registry (unnamed/part_001) and its callers *)

\* fmt.Errorf("no video devices were created")
NoDevicesCreated == [msg |-> "no video devices were created", id |-> <<>>, cause |-> ""]

\* fmt.Errorf("no available devices")
NoAvailableDevices == [msg |-> "no available devices", id |-> <<>>, cause |-> ""]

\* part_001 CreateDevices: as the stateless one, and v.healthy = true on success.
TrackingCreateDevices(count) ==
    /\ devices' = DiscoveredRegistry(count)
    /\ held' = Orphaned(held)
    /\ healthy' = IF DiscoveredOrdinals(count) = {} THEN healthy ELSE TRUE
    /\ out' = [NoOut EXCEPT !.op = "CreateDevices", !.req = <<count>>,
                            !.err = IF DiscoveredOrdinals(count) = {}
                                    THEN NoDevicesCreated ELSE NoError]
    /\ PluginUnchanged
    /\ UNCHANGED <<nodes, module, fallback, pods, podsCompletedList, mu>>

\* The keys of all records, allocated or not.
Registered == DOMAIN devices

\* The keys of the records whose Allocated bit is clear.
Unallocated == {id \in DOMAIN devices : ~devices[id].Allocated}

\* part_001 GetAvailableDevices: a fresh slice of the registry's own pointers.
GetAvailableDevices == {devices[id] : id \in Unallocated}

\* What the caller gets for the element with key deviceID of that slice.
GetAvailableDevicesHandle(deviceID) == RecordHandle(deviceID, TRUE, "GetAvailableDevices")

\* A caller calls GetAvailableDevices and keeps one element of the slice.
CallGetAvailableDevices(keep) ==
    /\ keep \in Unallocated
    /\ held' = GetAvailableDevicesHandle(keep)
    /\ out' = [NoOut EXCEPT !.op = "GetAvailableDevices", !.list = GetAvailableDevices]
    /\ PluginUnchanged
    /\ UNCHANGED <<nodes, devices, healthy, module, fallback, pods, podsCompletedList, mu>>

\* What part_001 AllocateDevice returns for the record it picked: the
\* registry's own pointer.
TrackingAllocateDeviceHandle(deviceID) == RecordHandle(deviceID, TRUE, "AllocateDevice")

\* part_001 AllocateDevice(): the first record with a clear Allocated bit in
\* map iteration order (any of them) is marked and returned.
TrackingAllocateDevice ==
    /\ \/ /\ Unallocated = {}
          /\ UNCHANGED <<devices, held, mu>>
          /\ out' = [NoOut EXCEPT !.op = "AllocateDevice", !.err = NoAvailableDevices]
       \/ \E id \in Unallocated :
            /\ devices' = [devices EXCEPT ![id].Allocated = TRUE]
            /\ held' = TrackingAllocateDeviceHandle(id)
            /\ out' = [NoOut EXCEPT !.op = "AllocateDevice",
                         !.resp = <<[devices[id] EXCEPT !.Allocated = TRUE]>>]
    /\ PluginUnchanged
    /\ UNCHANGED <<nodes, healthy, module, fallback, pods, podsCompletedList, mu>>

\* fmt.Errorf("device ID cannot be empty")
EmptyDeviceID == [msg |-> "device ID cannot be empty", id |-> <<>>, cause |-> ""]

\* A ReleaseDevice that refuses a device whose Allocated bit is clear.
ReleaseDeviceStrict(deviceID) ==
    /\ devices' = IF deviceID \in DOMAIN devices
                  THEN [devices EXCEPT ![deviceID].Allocated = FALSE]
                  ELSE devices
    /\ out' = [NoOut EXCEPT !.op = "ReleaseDevice", !.req = <<deviceID>>,
                 !.err = IF deviceID = <<>> THEN EmptyDeviceID
                         ELSE IF deviceID \notin DOMAIN devices
                              THEN DeviceNotFound(deviceID)
                         ELSE IF ~devices[deviceID].Allocated
                              THEN [msg |-> "device not allocated", id |-> deviceID,
                                    cause |-> ""]
                         ELSE NoError]
    /\ PluginUnchanged
    /\ UNCHANGED <<nodes, held, healthy, module, fallback, pods, podsCompletedList, mu>>

\* part_001 ReleaseDevice(deviceID): an empty id and an unknown id are
\* errors; a device that is not allocated is left as it is, with nil.
ReleaseDevice(deviceID) ==
    /\ devices' = IF deviceID \in DOMAIN devices
                  THEN [devices EXCEPT ![deviceID].Allocated = FALSE]
                  ELSE devices
    /\ out' = [NoOut EXCEPT !.op = "ReleaseDevice", !.req = <<deviceID>>,
                 !.err = IF deviceID = <<>> THEN EmptyDeviceID
                         ELSE IF deviceID \in DOMAIN devices THEN NoError
                         ELSE DeviceNotFound(deviceID)]
    /\ PluginUnchanged
    /\ UNCHANGED <<nodes, held, healthy, module, fallback, pods, podsCompletedList, mu>>

\* part_001 MarkDeviceAsAllocated(deviceID)
MarkDeviceAsAllocated(deviceID) ==
    /\ devices' = IF deviceID \in DOMAIN devices
                  THEN [devices EXCEPT ![deviceID].Allocated = TRUE]
                  ELSE devices
    /\ out' = [NoOut EXCEPT !.op = "MarkDeviceAsAllocated", !.req = <<deviceID>>,
                 !.err = IF deviceID \in DOMAIN devices THEN NoError
                         ELSE DeviceNotFound(deviceID)]
    /\ PluginUnchanged
    /\ UNCHANGED <<nodes, held, healthy, module, fallback, pods, podsCompletedList, mu>>

\* part_001 GetDeviceByID: a fresh copy of ID, Path and Allocated.
TrackingGetDeviceByIDResult(deviceID) ==
    IF deviceID \in DOMAIN devices
    THEN [err |-> NoError,
          rec |-> VideoDevice(devices[deviceID].ID, devices[deviceID].Path,
                              devices[deviceID].Allocated)]
    ELSE [err |-> DeviceNotFound(deviceID), rec |-> VideoDevice(<<>>, <<>>, FALSE)]

TrackingGetDeviceByIDHandle(deviceID) == RecordHandle(deviceID, FALSE, "GetDeviceByID")

CallTrackingGetDeviceByID(deviceID) ==
    /\ held' = IF TrackingGetDeviceByIDResult(deviceID).err = NoError
               THEN TrackingGetDeviceByIDHandle(deviceID) ELSE NoHandle
    /\ out' = [NoOut EXCEPT !.op = "GetDeviceByID", !.req = <<deviceID>>,
                 !.err = TrackingGetDeviceByIDResult(deviceID).err,
                 !.resp = IF TrackingGetDeviceByIDResult(deviceID).err = NoError
                          THEN <<TrackingGetDeviceByIDResult(deviceID).rec>> ELSE <<>>]
    /\ PluginUnchanged
    /\ UNCHANGED <<nodes, devices, healthy, module, fallback, pods, podsCompletedList, mu>>

\* part_001 ListAllDevices: a fresh map of fresh copies.
TrackingListAllDevices ==
    [id \in DOMAIN devices |->
        VideoDevice(devices[id].ID, devices[id].Path, devices[id].Allocated)]

TrackingListAllDevicesHandle(keep) ==
    IF keep = <<>> THEN MapHandle(FALSE, "ListAllDevices")
    ELSE RecordHandle(keep, FALSE, "ListAllDevices")

CallTrackingListAllDevices(keep) ==
    /\ keep \in DOMAIN devices \cup {<<>>}
    /\ held' = TrackingListAllDevicesHandle(keep)
    /\ out' = [NoOut EXCEPT !.op = "ListAllDevices", !.resp = <<TrackingListAllDevices>>]
    /\ PluginUnchanged
    /\ UNCHANGED <<nodes, devices, healthy, module, fallback, pods, podsCompletedList, mu>>

\* part_001 IsHealthy and GetDeviceCount probe this many nodes when the
\* registry is empty: for i := 0; i < 8; i++
TrackingProbeCount == 8

\* part_001 IsHealthy: over the registry when it has devices, otherwise over
\* the nodes /dev/video<i>, i < 8.
TrackingIsHealthy ==
    IF devices # EmptyRegistry
    THEN \A id \in DOMAIN devices : NodeUsable(devices[id].Path)
    ELSE \A i \in 0 .. (TrackingProbeCount - 1) : NodeUsable(DevicePath(i))

\* part_001 GetDeviceCount: len(v.devices) when it has devices, otherwise
\* the number of existing nodes /dev/video<i>, i < 8.
TrackingGetDeviceCount ==
    IF devices # EmptyRegistry
    THEN Cardinality(DOMAIN devices)
    ELSE Cardinality({i \in 0 .. (TrackingProbeCount - 1) : checkDeviceExists(DevicePath(i))})

CallTrackingIsHealthy ==
    /\ out' = [NoOut EXCEPT !.op = "IsHealthy", !.resp = <<TrackingIsHealthy>>]
    /\ PluginUnchanged
    /\ UNCHANGED <<nodes, devices, held, healthy, module, fallback, pods, podsCompletedList, mu>>

CallTrackingGetDeviceCount ==
    /\ out' = [NoOut EXCEPT !.op = "GetDeviceCount", !.resp = <<TrackingGetDeviceCount>>]
    /\ PluginUnchanged
    /\ UNCHANGED <<nodes, devices, held, healthy, module, fallback, pods, podsCompletedList, mu>>

NextTracking ==
    \/ \E count \in 1..MaxDevices : TrackingCreateDevices(count)
    \/ \E keep \in ReqIDs : CallGetAvailableDevices(keep)
    \/ TrackingAllocateDevice
    \/ \E deviceID \in ReqIDs : ReleaseDevice(deviceID)
    \/ \E deviceID \in ReqIDs : MarkDeviceAsAllocated(deviceID)
    \/ \E deviceID \in ReqIDs : CallTrackingGetDeviceByID(deviceID)
    \/ \E keep \in ReqIDs \cup {<<>>} : CallTrackingListAllDevices(keep)
    \/ \E field \in {"ID", "Path", "Allocated"} : CallerWriteRecord(field)
    \/ \E deviceID \in ReqIDs : CallerRemoveEntry(deviceID)
    \/ CallerAddEntry

SpecTracking == Init /\ [][NextTracking]_vars

\* C9: no record handed out by an operation of the allocation-tracking
\* registry (AllocateDevice and GetAvailableDevices included) lets its holder
\* change the registry: a caller's write through what it holds leaves the
\* registry as it was.
C9_TrackingCopyIsolation ==
    [][out'.op = "CallerWrite" => devices' = devices]_vars

----------------------------------------------------------------------------
(* Module recovery: health tick, recovery controller, module loader *)

\* module.loaded  : lsmod lists v4l2loopback
\* module.state   : "Stable" or "Recovering"
\* module.flights : the unload/reload sequences in progress, each at its
\*                  next step: "unload" or "load"

Digits == <<"0", "1", "2", "3", "4", "5", "6", "7", "8", "9">>

\* fmt.Sprintf("%d", n) for n >= 0: the decimal digits of n
RECURSIVE ToDecimal(_)
ToDecimal(n) ==
    IF n < 10 THEN <<Digits[n + 1]>>
    ELSE ToDecimal(n \div 10) \o <<Digits[(n % 10) + 1]>>

DigitValue(c) == CHOOSE d \in 0..9 : Digits[d + 1] = c

\* The number the kernel module reads from a decimal parameter value.
RECURSIVE FromDecimal(_)
FromDecimal(str) ==
    IF Len(str) = 1 THEN DigitValue(str[1])
    ELSE 10 * FromDecimal(SubSeq(str, 1, Len(str) - 1)) + DigitValue(str[Len(str)])

\* strings.Join(parts, ",")
RECURSIVE Join(_)
Join(parts) ==
    IF parts = <<>> THEN <<>>
    ELSE IF Len(parts) = 1 THEN parts[1]
    ELSE parts[1] \o <<",">> \o Join(Tail(parts))

\* The values of a comma-separated module parameter.
RECURSIVE Split(_)
Split(str) ==
    IF \A i \in 1..Len(str) : str[i] # "," THEN <<str>>
    ELSE LET k == CHOOSE i \in 1..Len(str) :
                     str[i] = "," /\ \A j \in 1..(i - 1) : str[j] # ","
         IN  <<SubSeq(str, 1, k - 1)>> \o Split(SubSeq(str, k + 1, Len(str)))

\* utils.go loadConfig: defaults of V4L2_MAX_BUFFERS, V4L2_EXCLUSIVE_CAPS
\* and V4L2_CARD_LABEL
V4L2MaxBuffers == 2
V4L2ExclusiveCaps == 1
V4L2CardLabel == <<"Default WebCam">>

\* A load that numbers the devices from 0.
videoNumbersFromZero(maxDevices) == [i \in 1..maxDevices |-> ToDecimal(i - 1)]

\* module_manager.go loadV4L2LoopbackModule: videoNumbers[i] =
\* fmt.Sprintf("%d", VideoDeviceStartNumber+i) for i < config.MaxDevices
videoNumbers(maxDevices) ==
    [i \in 1..maxDevices |-> ToDecimal(VideoDeviceStartNumber + i - 1)]

\* module_manager.go loadV4L2LoopbackModule: the parameters of
\* modprobe v4l2loopback
ModprobeArguments(maxDevices) ==
    [video_nr       |-> Join(videoNumbers(maxDevices)),
     max_buffers    |-> ToDecimal(V4L2MaxBuffers),
     exclusive_caps |-> Join([i \in 1..maxDevices |-> ToDecimal(V4L2ExclusiveCaps)]),
     card_label     |-> Join([i \in 1..maxDevices |-> <<"\"">> \o V4L2CardLabel \o <<"\"">>])]

\* The ordinals of the nodes v4l2loopback creates for its video_nr parameter.
CreatedOrdinals(args) ==
    {FromDecimal(Split(args.video_nr)[i]) : i \in 1..Len(Split(args.video_nr))}

\* What modprobe v4l2loopback with these parameters creates.
FreshNodes ==
    [n \in Ordinals |->
        IF n \in CreatedOrdinals(ModprobeArguments(MaxDevices)) THEN "ok" ELSE "missing"]

\* What modprobe -r v4l2loopback leaves of the device nodes.
NoNodes == [n \in Ordinals |-> "missing"]

\* module_manager.go verifyV4L2Configuration: every node of the range exists.
verifyV4L2Configuration == \A n \in Ordinals : checkDeviceExists(DevicePath(n))

\* v4l2_manager.go CheckAllDevicesCapabilities: the paths of the range
\* whose capability probe fails.
CheckAllDevicesCapabilities(maxDevices) ==
    {DevicePath(n) : n \in {m \in VideoDeviceStartNumber .. (VideoDeviceStartNumber + maxDevices - 1) :
                               ~HasVideoCaptureCapability(DevicePath(m))}}

LoadFailed(outcome) == [msg |-> outcome, id |-> <<>>, cause |-> ""]

\* module_manager.go loadV4L2LoopbackModule: the error it returns and the
\* module and nodes it leaves.  unloadOk is the outcome of modprobe -r and
\* outcome that of the modprobe calls: "videodevFailed", "modprobeFailed", "ok".
\* A loaded module whose nodes all exist is left alone; modprobe of a module
\* that is still loaded creates nothing.
loadV4L2LoopbackModule(unloadOk, outcome) ==
    IF module.loaded /\ verifyV4L2Configuration
    THEN [err |-> NoError, loaded |-> TRUE, nodes |-> nodes, args |-> <<>>,
          created |-> FALSE]
    ELSE LET unloaded == module.loaded /\ unloadOk
             loadedNow == module.loaded /\ ~unloadOk
             nodesNow == IF unloaded THEN NoNodes ELSE nodes
         IN  IF outcome = "videodevFailed"
             THEN [err |-> LoadFailed(outcome), loaded |-> loadedNow, nodes |-> nodesNow,
                   args |-> <<>>, created |-> FALSE]
             ELSE IF outcome # "ok"
             THEN [err |-> LoadFailed(outcome), loaded |-> loadedNow, nodes |-> nodesNow,
                   args |-> <<ModprobeArguments(MaxDevices)>>, created |-> FALSE]
             ELSE [err |-> NoError, loaded |-> TRUE,
                   nodes |-> IF loadedNow THEN nodesNow ELSE FreshNodes,
                   args |-> <<ModprobeArguments(MaxDevices)>>, created |-> ~loadedNow]

\* A guard that never holds: every trigger starts a sequence.
NoGuard(m) == FALSE

\* The single-flight guard of the recovery controller: a sequence is in progress.
SingleFlightGuard(m) == m.flights # <<>>

\* The sequence q without its i-th element.
RemoveAt(q, i) == [j \in 1..(Len(q) - 1) |-> IF j < i THEN q[j] ELSE q[j + 1]]

\* One tick of the health checker: probe the range; when a device fails,
\* trigger recovery, which is dropped while a sequence is in progress and
\* otherwise enters Recovering and starts one.
HealthTick ==
    /\ module' =
         IF CheckAllDevicesCapabilities(MaxDevices) = {} \/ SingleFlightGuard(module)
         THEN module
         ELSE [module EXCEPT !.state = "Recovering", !.flights = Append(@, "unload")]
    /\ Len(module'.flights) <= MaxFlights
    /\ out' = [NoOut EXCEPT !.op = "HealthTick",
                 !.list = CheckAllDevicesCapabilities(MaxDevices),
                 !.resp = IF CheckAllDevicesCapabilities(MaxDevices) = {} THEN <<"healthy">>
                          ELSE IF SingleFlightGuard(module) THEN <<"dropped">>
                          ELSE <<"started">>]
    /\ PluginUnchanged
    /\ UNCHANGED <<nodes, devices, held, healthy, fallback, pods, podsCompletedList, mu>>

\* First step of sequence i: modprobe -r v4l2loopback, which may fail.
RecoveryUnload(i, unloadOk) ==
    /\ i \in 1..Len(module.flights)
    /\ module.flights[i] = "unload"
    /\ module' = [module EXCEPT !.flights[i] = "load",
                                !.loaded = IF unloadOk THEN FALSE ELSE @]
    /\ nodes' = IF unloadOk /\ module.loaded THEN NoNodes ELSE nodes
    /\ out' = [NoOut EXCEPT !.op = "RecoveryUnload"]
    /\ PluginUnchanged
    /\ UNCHANGED <<devices, held, healthy, fallback, pods, podsCompletedList, mu>>

\* Second step of sequence i: loadV4L2LoopbackModule.  On success the
\* controller is Stable again; on failure it stays Recovering and the next
\* tick retries.
RecoveryLoad(i, unloadOk, outcome) ==
    /\ i \in 1..Len(module.flights)
    /\ module.flights[i] = "load"
    /\ module' = [loaded |-> loadV4L2LoopbackModule(unloadOk, outcome).loaded,
                  state |-> IF loadV4L2LoopbackModule(unloadOk, outcome).err = NoError
                            THEN "Stable" ELSE "Recovering",
                  flights |-> RemoveAt(module.flights, i)]
    /\ nodes' = loadV4L2LoopbackModule(unloadOk, outcome).nodes
    /\ out' = [NoOut EXCEPT !.op = "RecoveryLoad",
                            !.req = loadV4L2LoopbackModule(unloadOk, outcome).args,
                            !.resp = <<loadV4L2LoopbackModule(unloadOk, outcome).created>>,
                            !.err = loadV4L2LoopbackModule(unloadOk, outcome).err]
    /\ PluginUnchanged
    /\ UNCHANGED <<devices, held, healthy, fallback, pods, podsCompletedList, mu>>

\* The loaded module corrupts a device node, or a node is removed or repaired.
NodeCorrupted(n, st) ==
    /\ module.loaded
    /\ NodeChange(n, st)

\* The state after main's startup load and CreateDevices(config.MaxDevices):
\* module loaded, its nodes created and registered.
InitRecovery ==
    /\ nodes = FreshNodes
    /\ devices = DiscoveredRegistry(MaxDevices)
    /\ phase = "new"
    /\ socketFile = "none"
    /\ server = "none"
    /\ registered = FALSE
    /\ kubelet = "accepting"
    /\ monitor = "off"
    /\ stopCh = "open"
    /\ updateCh = 0
    /\ streams = [s \in Streams |-> "idle"]
    /\ held = NoHandle
    /\ healthy = FALSE
    /\ module = [loaded |-> TRUE, state |-> "Stable", flights |-> <<>>]
    /\ fallback = NoFallback
    /\ pods = NoPods
    /\ podsCompletedList = {}
    /\ mu = Unlocked(devices)
    /\ out = NoOut

NextRecovery ==
    \/ \E n \in Ordinals, st \in NodeStates : NodeCorrupted(n, st)
    \/ HealthTick
    \/ \E i \in 1..MaxFlights, unloadOk \in BOOLEAN : RecoveryUnload(i, unloadOk)
    \/ \E i \in 1..MaxFlights, unloadOk \in BOOLEAN,
          outcome \in {"videodevFailed", "modprobeFailed", "ok"} :
            RecoveryLoad(i, unloadOk, outcome)

SpecRecovery == InitRecovery /\ [][NextRecovery]_vars

\* C10: at most one unload/reload sequence is in progress at any time, and a
\* health tick that finds devices failing while a sequence is in progress
\* changes neither the controller nor the module nor the nodes.
C10_RecoverySingleFlight ==
    [][/\ Len(module'.flights) <= 1
       /\ (module.flights # <<>> /\ out'.op = "HealthTick")
          => (module' = module /\ nodes' = nodes)]_vars

\* C10 witness: a tick has just found failing devices while the one sequence
\* in progress had unloaded the module and not yet reloaded it; the trigger
\* was dropped.
C10_Witness ==
    /\ out.op = "HealthTick"
    /\ out.resp = <<"dropped">>
    /\ module.state = "Recovering"
    /\ module.flights = <<"load">>
    /\ ~module.loaded

----------------------------------------------------------------------------
(* Properties of the device plugin *)

\* A registered device is healthy when its node exists, is readable and
\* answers the capability probe.
Healthy(deviceID) ==
    /\ GetDeviceHealth(deviceID)
    /\ HasVideoCaptureCapability(devices[deviceID].Path)

\* C1: an Allocate request with a container request naming two or more device
\* ids, at least one of which is not in the registry (in any position),
\* returns an error and no device data.
C1_NoPartialAllocation ==
    out.op = "Allocate" =>
        ((\E i \in 1..Len(out.req) :
              /\ Len(out.req[i]) >= 2
              /\ \E j \in 1..Len(out.req[i]) : out.req[i][j] \notin DOMAIN devices)
         => (out.err # NoError /\ out.resp = <<>>))

\* C2: in every device list sent on an advertise stream, a registered device
\* whose capability probe fails (stuck, unreadable or missing node) is listed
\* Unhealthy and is not listed Healthy.
C2_HealthTruthful ==
    out.op = "send" =>
        \A id \in DOMAIN devices :
            ~HasVideoCaptureCapability(devices[id].Path) =>
                /\ [ID |-> id, Health |-> "Unhealthy"] \in out.list
                /\ [ID |-> id, Health |-> "Healthy"] \notin out.list

\* C3: every device list sent on an advertise stream has exactly one entry
\* for each registered device and no other entry, and the entry of a device
\* whose node is missing or unreadable says Unhealthy.
C3_AllDevicesAdvertised ==
    out.op = "send" =>
        /\ \A e \in out.list : e.ID \in DOMAIN devices
        /\ \A id \in DOMAIN devices :
              /\ Cardinality({e \in out.list : e.ID = id}) = 1
              /\ ~GetDeviceHealth(id) =>
                    \A e \in out.list : e.ID = id => e.Health = "Unhealthy"

\* The request of the Allocate call just answered, made again now, gets
\* the same answer.
SameAnswerAgain ==
    out.op = "Allocate" => AllocateResult(out.req) = [err |-> out.err, resp |-> out.resp]

C5_OneSpecPerDevice ==
    (out.op = "Allocate" /\ out.err = NoError) =>
        \A i \in 1..Len(out.req) :
            (Len(out.req[i]) >= 1 /\ \A j \in 1..Len(out.req[i]) : out.req[i][j] \in DOMAIN devices)
            => /\ Len(out.resp[i].Devices) = Len(out.req[i])
               /\ \A j \in 1..Len(out.req[i]) :
                     \E k \in 1..Len(out.resp[i].Devices) :
                         out.resp[i].Devices[k] =
                             [ContainerPath |-> devices[out.req[i][j]].Path,
                              HostPath |-> devices[out.req[i][j]].Path,
                              Permissions |-> "rw"]

----------------------------------------------------------------------------
(* Properties of discovery *)

\* The ordinals of [start, start+count) whose node can be stat'ed and opened.
Present(count) ==
    {n \in Ordinals : /\ n < VideoDeviceStartNumber + count
                      /\ nodes[n] \in {"stuck", "ok"}}

C18_DiscoveryExact ==
    out.op = "CreateDevices" =>
        /\ DOMAIN devices = {<<"video", n>> : n \in Present(out.req[1])}
        /\ \A n \in Present(out.req[1]) :
              devices[<<"video", n>>] =
                  [ID |-> <<"video", n>>, Path |-> <<"/dev/video", n>>, Allocated |-> FALSE]
        /\ (\A n \in VideoDeviceStartNumber .. (VideoDeviceStartNumber + out.req[1] - 1) :
                nodes[n] \in {"stuck", "ok"})
           => Cardinality(DOMAIN devices) = out.req[1]
        /\ \A n \in out.req[2] \cap Present(out.req[1]) : <<"video", n>> \in DOMAIN devices

\* C18 witness: the whole range was scanned, every node was present and
\* readable, chmod failed on some of them, and all of them are registered.
C18_Witness ==
    /\ out.op = "CreateDevices"
    /\ out.req[1] = MaxDevices
    /\ out.req[2] # {}
    /\ Cardinality(DOMAIN devices) = MaxDevices

\* C19: CreateDevices(count) returns an error exactly when it found no
\* device; when it found some but fewer than count it returns success and
\* the ones it found are registered.
C19_ErrorIffNoDevice ==
    out.op = "CreateDevices" =>
        /\ (out.err # NoError) <=> (Present(out.req[1]) = {})
        /\ Present(out.req[1]) # {}
           => DOMAIN devices = {<<"video", n>> : n \in Present(out.req[1])}

\* C19 witness: fewer devices than requested were found, and the call succeeded.
C19_Witness ==
    /\ out.op = "CreateDevices"
    /\ out.err = NoError
    /\ Cardinality(DOMAIN devices) > 0
    /\ Cardinality(DOMAIN devices) < out.req[1]

\* C20: after a CreateDevices call the registry holds only what that call
\* found: a device registered before whose node is gone or unreadable, or
\* whose ordinal lies outside the new count, is not in the registry any more.
C20_DiscoveryReplaces ==
    [][out'.op = "CreateDevices" =>
         /\ \A id \in DOMAIN devices :
               id[2] \notin Present(out'.req[1]) => id \notin DOMAIN devices'
         /\ \A id \in DOMAIN devices' : id[2] \in Present(out'.req[1])]_vars

\* C20 witness: a caller still holds the record of a device it once looked
\* up, and a later discovery has dropped that device from the registry
\* while keeping another.
C20_Witness ==
    /\ out.op = "CreateDevices"
    /\ held.kind = "record"
    /\ held.key \notin DOMAIN devices
    /\ devices # EmptyRegistry

(***************************************************************************)
(* Properties of the plugin life cycle                                     *)
(***************************************************************************)

\* C13: when registration with the node agent fails during startup and the
\* process then terminates, the listening socket file Start created has been
\* removed and the gRPC server has been stopped.
C13_NoPartialStateOnExit ==
    [][(/\ out.op = "Start"
        /\ out.err.msg = "registerFailed"
        /\ phase' = "exited")
       => (socketFile' = "none" /\ server' = "stopped")]_vars

\* C14: in Stop the listening socket is removed only after the close of
\* stopCh has signalled the advertise streams and the monitor.
C14_SignalBeforeSocketRemoval ==
    [][(\/ out'.op = "Stop.cleanupSocket"
        \/ (out'.op = "Stop.server" /\ socketFile = "listening" /\ socketFile' = "none"))
       => stopCh = "closed"]_vars

\* C15: a Start that gets as far as the socket leaves no stale file at the
\* path (it listens on a fresh one, or fails to listen when the stale file
\* could not be removed), and after Stop has returned no file is at the path.
C15_SocketLifecycle ==
    /\ (out.op = "Start" /\ out.req[1] /\ out.req[4] = "stale")
         => \/ socketFile \in {"none", "listening"}
            \/ (~out.req[2] /\ out.err.msg = "listenFailed")
    /\ (phase \in {"running", "stopping.server", "stopping.socket", "stopped"})
         => socketFile # "stale"
    /\ phase = "stopped" => socketFile = "none"

C15_Witness ==
    \/ (out.op = "Start" /\ out.req[4] = "stale" /\ phase = "running"
          /\ socketFile = "listening")
    \/ (out.op = "Stop" /\ phase = "stopped" /\ socketFile = "none")

(***************************************************************************)
(* The advertise streams: several ListAndWatch calls served at once        *)
(***************************************************************************)

InitStreams ==
    /\ nodes = [n \in Ordinals |-> "ok"]
    /\ devices = DiscoveredRegistry(MaxDevices)
    /\ phase = "new"
    /\ socketFile = "none"
    /\ server = "none"
    /\ registered = FALSE
    /\ kubelet = "accepting"
    /\ monitor = "off"
    /\ stopCh = "open"
    /\ updateCh = 0
    /\ streams = [s \in 1..MaxStreams |-> "idle"]
    /\ held = NoHandle
    /\ healthy = FALSE
    /\ module = NoModule
    /\ fallback = NoFallback
    /\ pods = NoPods
    /\ podsCompletedList = {}
    /\ mu = Unlocked(devices)
    /\ out = NoOut

NextStreams ==
    \/ \E listenOk \in BOOLEAN : Start(TRUE, TRUE, listenOk)
    \/ StopServer
    \/ \E removeOk \in BOOLEAN : StopCleanupSocket(removeOk)
    \/ StopCloseStopCh
    \/ \E s \in DOMAIN streams, sendOk \in BOOLEAN : ListAndWatchOpen(s, sendOk)
    \/ \E s \in DOMAIN streams, sendOk \in BOOLEAN : ListAndWatchTick(s, sendOk)
    \/ \E s \in DOMAIN streams, sendOk \in BOOLEAN : ListAndWatchUpdate(s, sendOk)
    \/ \E s \in DOMAIN streams : ListAndWatchStop(s)
    \/ \E deviceID \in ReqIDs : Allocate(<<<<deviceID>>>>)
    \/ \E n \in Ordinals, st \in {"missing", "ok"} : NodeChange(n, st)
    \/ \E count \in 1..MaxDevices : CreateDevices(count, {})

SpecStreams == InitStreams /\ [][NextStreams]_vars

\* A new ListAndWatch call on stream s would be served with a device list.
Servable(s) == ENABLED ListAndWatchOpen(s, TRUE)

\* C16: a stream starts with a sent device list and every tick sends one;
\* ListAndWatch returns only with nil after the close of stopCh or with the
\* error of a failed send; a failed send ends that stream alone, and while
\* the plugin runs a later ListAndWatch call on it is served.
C16_StreamLifecycle ==
    /\ [](out.op = "ListAndWatch.return"
            => \/ (out.err = NoError /\ stopCh = "closed")
               \/ out.err = TransportError)
    /\ []((out.op = "ListAndWatch.return" /\ phase = "running")
            => Servable(out.stream))
    /\ [][\A s \in DOMAIN streams :
            /\ (streams[s] = "idle" /\ streams'[s] = "watching")
                 => (out'.op = "send" /\ out'.stream = s)
            /\ (streams[s] = "watching" /\ streams'[s] = "idle")
                 => (out'.op = "ListAndWatch.return" /\ out'.stream = s)
            /\ (streams[s] = "watching" /\ out'.stream = s /\ out'.err = NoError
                  /\ out'.op # "ListAndWatch.return")
                 => (out'.op = "send" /\ streams'[s] = "watching")
            /\ (out'.op = "ListAndWatch.return" /\ out'.stream # s)
                 => streams'[s] = streams[s]]_vars

C16_Witness ==
    /\ out.op = "ListAndWatch.return"
    /\ out.err = TransportError
    /\ phase = "running"
    /\ \E s \in DOMAIN streams : s # out.stream /\ streams[s] = "watching"

(***************************************************************************)
(* Re-registration: monitorKubeletRestart and the kubelet                  *)
(***************************************************************************)

\* Stop holds p.mu from its first statement to its return.
StopHoldsMu == phase \in {"stopping.server", "stopping.socket"}

RegisterFailed == [msg |-> "failed to register", id |-> <<>>, cause |-> ""]

\* A RegisterWithKubelet without the early return: it dials and sends
\* whatever p.registered is.
RegisterWithKubeletResending ==
    [sent |-> TRUE,
     err |-> IF RegisterSucceeds THEN NoError ELSE RegisterFailed,
     registered |-> registered \/ RegisterSucceeds]

\* device_plugin.go RegisterWithKubelet, under p.mu: nil at once when
\* p.registered is set; otherwise grpc.Dial and client.Register are reached
\* (sent), and p.registered is set after a Register that returned no error.
RegisterWithKubelet ==
    [sent |-> ~registered,
     err |-> IF registered \/ RegisterSucceeds THEN NoError ELSE RegisterFailed,
     registered |-> registered \/ RegisterSucceeds]

\* Some caller calls the exported RegisterWithKubelet.
CallRegisterWithKubelet ==
    /\ ~StopHoldsMu
    /\ registered' = RegisterWithKubelet.registered
    /\ out' = [NoOut EXCEPT !.op = "RegisterWithKubelet",
                 !.req = <<RegisterWithKubelet.sent>>,
                 !.err = RegisterWithKubelet.err]
    /\ UNCHANGED <<phase, socketFile, server, kubelet, monitor, stopCh, updateCh, streams>>
    /\ RegistryUnchanged

\* monitorKubeletRestart, inner loop: p.RegisterWithKubelet() and what
\* follows it.  On an error `continue` starts the next wait; on success
\* `break` leaves the select only, so the inner loop waits again as well.
RegisterAttempt ==
    /\ monitor = "registering"
    /\ ~StopHoldsMu
    /\ registered' = RegisterWithKubelet.registered
    /\ monitor' = "waiting"
    /\ out' = [NoOut EXCEPT !.op = "Monitor.register",
                 !.req = <<RegisterWithKubelet.sent>>,
                 !.err = RegisterWithKubelet.err]

\* monitorKubeletRestart, outer loop, case <-ticker.C (every 10 s): the
\* kubelet socket is looked at; when it is missing the inner loop is entered.
MonitorTick ==
    /\ monitor = "polling"
    /\ monitor' = IF kubelet = "absent" THEN "waiting" ELSE "polling"
    /\ out' = [NoOut EXCEPT !.op = "Monitor.tick"]
    /\ UNCHANGED <<phase, socketFile, server, registered, kubelet,
                   stopCh, updateCh, streams>>
    /\ RegistryUnchanged

\* monitorKubeletRestart, inner loop, case <-time.After(5 s): when the
\* socket is back p.registered is reset under p.mu.
MonitorWait ==
    /\ monitor = "waiting"
    /\ kubelet # "absent" => ~StopHoldsMu
    /\ monitor' = IF kubelet = "absent" THEN "waiting" ELSE "registering"
    /\ registered' = IF kubelet = "absent" THEN registered ELSE FALSE
    /\ out' = [NoOut EXCEPT !.op = "Monitor.wait"]
    /\ UNCHANGED <<phase, socketFile, server, kubelet, stopCh, updateCh, streams>>
    /\ RegistryUnchanged

MonitorRegister ==
    /\ RegisterAttempt
    /\ UNCHANGED <<phase, socketFile, server, kubelet, stopCh, updateCh, streams>>
    /\ RegistryUnchanged

\* monitorKubeletRestart, case <-p.stopCh in either loop: return
MonitorStop ==
    /\ monitor \in {"polling", "waiting"}
    /\ stopCh = "closed"
    /\ monitor' = "done"
    /\ out' = [NoOut EXCEPT !.op = "Monitor.return"]
    /\ UNCHANGED <<phase, socketFile, server, registered, kubelet,
                   stopCh, updateCh, streams>>
    /\ RegistryUnchanged

\* The kubelet goes away, comes back, starts or stops accepting Register.
KubeletChange(st) ==
    /\ kubelet # st
    /\ kubelet' = st
    /\ out' = NoOut
    /\ UNCHANGED <<phase, socketFile, server, registered, monitor,
                   stopCh, updateCh, streams>>
    /\ RegistryUnchanged

NextMonitor ==
    \/ \E mkdirOk \in BOOLEAN, removeOk \in BOOLEAN, listenOk \in BOOLEAN :
          Start(mkdirOk, removeOk, listenOk)
    \/ ExitOnStartError
    \/ StopServer
    \/ \E removeOk \in BOOLEAN : StopCleanupSocket(removeOk)
    \/ StopCloseStopCh
    \/ MonitorTick
    \/ MonitorWait
    \/ MonitorRegister
    \/ MonitorStop
    \/ \E st \in {"absent", "refusing", "accepting"} : KubeletChange(st)

\* The monitor goroutine keeps running: its timers fire and its selects
\* take a ready case.  A Stop that has begun runs to its return.
MonitorFairness ==
    /\ WF_vars(\E removeOk \in BOOLEAN : StopCleanupSocket(removeOk))
    /\ WF_vars(StopCloseStopCh)
    /\ WF_vars(MonitorTick)
    /\ WF_vars(MonitorWait)
    /\ WF_vars(MonitorRegister)
    /\ WF_vars(MonitorStop)

SpecMonitor == Init /\ [][NextMonitor]_vars /\ MonitorFairness

\* The kubelet stays present and accepting from some point on.
KubeletSettles == <>[](kubelet = "accepting")

ReRegistered == out.op = "Monitor.register" /\ out.err = NoError /\ registered

\* Once the monitor has seen the socket missing, a kubelet that settles is
\* registered with again unless Stop closes stopCh first.
ObservedRestartReRegisters ==
    KubeletSettles => ((monitor = "waiting") ~> (ReRegistered \/ stopCh = "closed"))

\* C12: whenever the kubelet socket disappears from under the running plugin
\* and later comes back to stay and accept Register, the monitor eventually
\* registers again and the plugin is registered, unless shutdown is
\* signalled first.
C12_ReRegistrationLiveness ==
    KubeletSettles =>
      ((kubelet = "absent" /\ phase = "running")
         ~> (ReRegistered \/ stopCh = "closed"))

\* C29: a successful re-registration puts the monitor back to its polling of
\* the kubelet socket, and while it polls with the plugin registered and the
\* socket present no Register is sent and p.registered is not reset.
C29_SteadyStateAfterReRegistration ==
    [][/\ (out'.op = "Monitor.register" /\ out'.err = NoError) => monitor' = "polling"
       /\ (monitor = "polling" /\ registered /\ kubelet # "absent")
            => (registered' /\ out'.op # "Monitor.register")]_vars

\* The monitor and callers of RegisterWithKubelet.
NextRegister ==
    \/ \E mkdirOk \in BOOLEAN, removeOk \in BOOLEAN, listenOk \in BOOLEAN :
          Start(mkdirOk, removeOk, listenOk)
    \/ StopServer
    \/ \E removeOk \in BOOLEAN : StopCleanupSocket(removeOk)
    \/ StopCloseStopCh
    \/ MonitorTick
    \/ MonitorWait
    \/ MonitorRegister
    \/ MonitorStop
    \/ \E st \in {"absent", "refusing", "accepting"} : KubeletChange(st)
    \/ CallRegisterWithKubelet

SpecRegister == Init /\ [][NextRegister]_vars

\* The steps that run RegisterWithKubelet as a call of its own.
RegisterOps == {"RegisterWithKubelet", "Monitor.register"}

\* C30: a RegisterWithKubelet on a registered plugin returns nil and neither
\* dials nor sends; on an unregistered one it sends, and p.registered is
\* true afterwards exactly when Register succeeded.  p.registered never
\* becomes true in any other way.
C30_RegisterIdempotent ==
    [][/\ (out'.op \in RegisterOps /\ registered)
            => (out'.err = NoError /\ out'.req = <<FALSE>> /\ registered')
       /\ (out'.op \in RegisterOps /\ ~registered)
            => /\ out'.req = <<TRUE>>
               /\ registered' <=> (out'.err = NoError)
               /\ (out'.err = NoError) <=> (kubelet = "accepting")
       /\ (~registered /\ registered')
            => (out'.op \in RegisterOps \cup {"Start"} /\ out'.err = NoError
                /\ kubelet = "accepting")]_vars

\* C30 witness: RegisterWithKubelet was called on a registered plugin while
\* the kubelet refuses Register, and returned nil without sending.
C30_Witness ==
    /\ out.op = "RegisterWithKubelet"
    /\ out.req = <<FALSE>>
    /\ out.err = NoError
    /\ registered
    /\ kubelet = "refusing"

(***************************************************************************)
(* Shutdown: Stop, the streams and the monitor                             *)
(***************************************************************************)

\* monitorKubeletRestart calls RegisterWithKubelet: p.mu is taken, and with
\* p.registered reset the request goes out with context.Background(), which
\* sets no deadline: the call lasts until the kubelet answers or the
\* connection fails (answered), and for ever when neither happens.
MonitorRegisterSend(answered) ==
    /\ monitor = "registering"
    /\ ~StopHoldsMu
    /\ monitor' = IF ~RegisterWithKubelet.sent THEN "waiting"
                  ELSE IF answered THEN "inflight" ELSE "hung"
    /\ out' = [NoOut EXCEPT !.op = "Monitor.send",
                 !.req = <<RegisterWithKubelet.sent, answered>>]
    /\ UNCHANGED <<phase, socketFile, server, registered, kubelet, stopCh, updateCh, streams>>
    /\ RegistryUnchanged

\* client.Register returns, with the kubelet's answer or with the error of
\* a kubelet that is gone or refuses; p.mu is released.
MonitorRegisterReturn ==
    /\ monitor = "inflight"
    /\ registered' = RegisterSucceeds
    /\ monitor' = "waiting"
    /\ out' = [NoOut EXCEPT !.op = "Monitor.register", !.req = <<TRUE>>,
                 !.err = IF RegisterSucceeds THEN NoError ELSE RegisterFailed]
    /\ UNCHANGED <<phase, socketFile, server, kubelet, stopCh, updateCh, streams>>
    /\ RegistryUnchanged

NextShutdown ==
    \/ \E listenOk \in BOOLEAN : Start(TRUE, TRUE, listenOk)
    \/ StopCalled
    \/ StopServer
    \/ \E removeOk \in BOOLEAN : StopCleanupSocket(removeOk)
    \/ StopCloseStopCh
    \/ \E s \in DOMAIN streams, sendOk \in BOOLEAN : ListAndWatchOpen(s, sendOk)
    \/ \E s \in DOMAIN streams, sendOk \in BOOLEAN : ListAndWatchTick(s, sendOk)
    \/ \E s \in DOMAIN streams : ListAndWatchStop(s)
    \/ MonitorTick
    \/ MonitorWait
    \/ \E answered \in BOOLEAN : MonitorRegisterSend(answered)
    \/ MonitorRegisterReturn
    \/ MonitorStop
    \/ \E st \in {"absent", "refusing", "accepting"} : KubeletChange(st)

\* Every goroutine of the plugin keeps running: Stop's statements, the
\* select of each stream and of the monitor, and a Register call whose
\* answer or failure is there.  The monitor's select is entered with a new
\* timer each time, so that one entered after close(p.stopCh) takes the
\* stopCh case; sync.Mutex hands p.mu to a Stop that keeps waiting for it.
ShutdownFairness ==
    /\ SF_vars(StopServer)
    /\ WF_vars(\E removeOk \in BOOLEAN : StopCleanupSocket(removeOk))
    /\ WF_vars(StopCloseStopCh)
    /\ \A s \in 1..MaxStreams :
          /\ WF_vars(\E sendOk \in BOOLEAN : ListAndWatchTick(s, sendOk))
          /\ WF_vars(ListAndWatchStop(s))
    /\ WF_vars(MonitorTick)
    /\ WF_vars(MonitorWait)
    /\ WF_vars(\E answered \in BOOLEAN : MonitorRegisterSend(answered))
    /\ WF_vars(MonitorRegisterReturn)
    /\ SF_vars(MonitorStop)

SpecShutdown == InitStreams /\ [][NextShutdown]_vars /\ ShutdownFairness

\* Stop has returned, no ListAndWatch stream is open and the monitor is gone.
ShutdownComplete ==
    /\ phase = "stopped"
    /\ monitor = "done"
    /\ \A s \in DOMAIN streams : streams[s] = "idle"

\* C31: once Stop is called, Stop returns, every open ListAndWatch stream
\* ends and the monitor exits, whatever the monitor is doing at that moment.
C31_ShutdownLiveness == (phase = "stopping") ~> ShutdownComplete

\* No Register request stays without answer or failure for ever.
KubeletAnswers == [](monitor # "hung")

\* With a kubelet that answers or fails every Register, shutdown completes.
AnsweredShutdownCompletes == KubeletAnswers => C31_ShutdownLiveness

(***************************************************************************)
(* Properties of health reporting                                          *)
(***************************************************************************)

\* C11: a device list sent while the capability probe of a registered
\* device times out (node "stuck") lists that device Unhealthy.
C11_ProbeTimeoutAdvertised ==
    out.op = "send" =>
        \A id \in DOMAIN devices :
            NodeAt(devices[id].Path) = "stuck"
               => \E e \in out.list : e.ID = id /\ e.Health = "Unhealthy"

(***************************************************************************)
(* Properties of the registry's health and count queries                   *)
(***************************************************************************)

\* README.md: FALLBACK_DEVICE_PREFIX, default /dev/dummy-video
FallbackDevicePrefix == "/dev/dummy-video"

\* fmt.Sprintf("%s%d", v.fallbackPrefix, n)
FallbackPath(n) == <<FallbackDevicePrefix, n>>

\* The registry EnableFallbackMode(reason, count) builds: every ordinal of
\* [start, start+count) with its dummy path, whether or not its file could
\* be created.
FallbackRegistry(count) ==
    [id \in {DeviceID(n) : n \in VideoDeviceStartNumber .. (VideoDeviceStartNumber + count - 1)} |->
        VideoDevice(id, FallbackPath(id[2]), FALSE)]

\* v4l2_manager.go EnableFallbackMode; created = the ordinals for which
\* createFallbackDeviceFile left a file (symlink or regular file).
EnableFallbackMode(reason, count, created) ==
    /\ fallback' = [mode |-> TRUE, reason |-> reason,
                    files |-> fallback.files \cup
                       (created \cap VideoDeviceStartNumber .. (VideoDeviceStartNumber + count - 1))]
    /\ devices' = FallbackRegistry(count)
    /\ held' = Orphaned(held)
    /\ out' = [NoOut EXCEPT !.op = "EnableFallbackMode", !.req = <<reason, count>>]
    /\ PluginUnchanged
    /\ UNCHANGED <<nodes, healthy, module, pods, podsCompletedList, mu>>

\* v4l2_manager.go CreateDevices of the manager with fallback support: the
\* same discovery; v.fallbackMode is left as it is.
FallbackVariantCreateDevices(count) == CreateDevices(count, {})

\* v4l2_manager.go CleanupFallbackDevices: in fallback mode os.Remove of the
\* path of every registered device; removed = the ordinals whose removal
\* succeeds.
CleanupFallbackDevices(removed) ==
    /\ fallback' =
         IF fallback.mode
         THEN [fallback EXCEPT !.files =
                 @ \ {n \in removed : \E id \in DOMAIN devices :
                                          devices[id].Path = FallbackPath(n)}]
         ELSE fallback
    /\ nodes' =
         IF fallback.mode
         THEN [n \in DOMAIN nodes |->
                 IF n \in removed /\ \E id \in DOMAIN devices : devices[id].Path = DevicePath(n)
                 THEN "missing" ELSE nodes[n]]
         ELSE nodes
    /\ out' = [NoOut EXCEPT !.op = "CleanupFallbackDevices", !.req = <<removed>>]
    /\ PluginUnchanged
    /\ UNCHANGED <<devices, held, healthy, module, pods, podsCompletedList, mu>>

\* The registry with fallback support and its callers.
NextFallback ==
    \/ \E n \in Ordinals, st \in NodeStates : NodeChange(n, st)
    \/ \E count \in 1..MaxDevices : FallbackVariantCreateDevices(count)
    \/ \E count \in 1..MaxDevices, created \in SUBSET Ordinals :
          EnableFallbackMode("module load failed", count, created)
    \/ \E removed \in SUBSET Ordinals : CleanupFallbackDevices(removed)
    \/ \E deviceID \in ReqIDs : CallGetDeviceByID(deviceID)

SpecFallback == Init /\ [][NextFallback]_vars

\* C22: the key of every registry entry is the id of its record, and no
\* step gives a registered id another path than the one it has.
C22_MappingStable ==
    /\ [](\A id \in DOMAIN devices : devices[id].ID = id)
    /\ [][\A id \in DOMAIN devices \cap DOMAIN devices' :
            devices'[id].Path = devices[id].Path]_vars

\* The stateless registry, its discovery and its queries, over a changing /dev.
NextQueries ==
    \/ \E n \in Ordinals, st \in NodeStates : NodeChange(n, st)
    \/ \E count \in 1..MaxDevices : CreateDevices(count, {})
    \/ \E maxDevices \in 1..MaxDevices : CallIsHealthy(maxDevices)
    \/ \E maxDevices \in 1..MaxDevices : CallGetDeviceCount(maxDevices)

SpecQueries == Init /\ [][NextQueries]_vars

\* The same for the allocation-tracking registry.
NextTrackingQueries ==
    \/ \E n \in Ordinals, st \in NodeStates : NodeChange(n, st)
    \/ \E count \in 1..MaxDevices : TrackingCreateDevices(count)
    \/ CallTrackingIsHealthy
    \/ CallTrackingGetDeviceCount

SpecTrackingQueries == Init /\ [][NextTrackingQueries]_vars

\* The device count the process is configured with: the argument of the
\* query, or the configured maximum for a query that takes none.
ConfiguredCount == IF Len(out.req) = 1 THEN out.req[1] ELSE MaxDevices

\* The nodes of the range discovery scans for that count.
DiscoveryRange ==
    {DevicePath(n) : n \in VideoDeviceStartNumber .. (VideoDeviceStartNumber + ConfiguredCount - 1)}

\* C21: with an empty registry IsHealthy and GetDeviceCount answer from the
\* nodes of the range [start, start + maxDevices) that discovery scans; with
\* a non-empty registry they answer from the registered devices only.
C21_EmptyRegistryFallback ==
    /\ (out.op = "IsHealthy" /\ devices = EmptyRegistry)
         => out.resp = <<\A path \in DiscoveryRange : NodeUsable(path)>>
    /\ (out.op = "GetDeviceCount" /\ devices = EmptyRegistry)
         => out.resp = <<Cardinality({path \in DiscoveryRange : checkDeviceExists(path)})>>
    /\ (out.op = "IsHealthy" /\ devices # EmptyRegistry)
         => out.resp = <<\A id \in DOMAIN devices : NodeUsable(devices[id].Path)>>
    /\ (out.op = "GetDeviceCount" /\ devices # EmptyRegistry)
         => out.resp = <<Cardinality(DOMAIN devices)>>

(***************************************************************************)
(* Configuration: loadConfig and validateConfig (utils.go)                 *)
(***************************************************************************)

\* MAX_DEVICES is tried with every integer of -EnvSpan .. EnvSpan.
EnvSpan == 18

\* "v4l2loopback has a hard limit of 8 devices"; also the default of MAX_DEVICES
ModuleHardLimit == 8

\* The upper limit in validateConfig of the second utils.go
SecondValidateLimit == 16

DefaultResourceName == "meeting-baas.io/video-devices"
DefaultSocketPath == "/var/lib/kubelet/device-plugins/video-device-plugin.sock"

\* A value of MAX_DEVICES: unset, text strconv.Atoi rejects, or the decimal
\* form of an integer.
EnvUnset == [kind |-> "unset", val |-> 0]
EnvText == [kind |-> "text", val |-> 0]
EnvInt(n) == [kind |-> "int", val |-> n]

\* The environment loadConfig reads; the string variables are unset ("") or set.
Environments ==
    [MAX_DEVICES   : {EnvUnset, EnvText} \cup {EnvInt(n) : n \in (0 - EnvSpan) .. EnvSpan},
     NODE_NAME     : {"", "node-a"},
     RESOURCE_NAME : {"", "example.com/video"},
     SOCKET_PATH   : {"", "/tmp/plugin.sock"}]

\* The configurations validateConfig may be handed.
Configs ==
    [MaxDevices   : (0 - EnvSpan) .. EnvSpan,
     NodeName     : {"", "node-a"},
     ResourceName : {"", DefaultResourceName, "example.com/video"},
     SocketPath   : {"", DefaultSocketPath, "/tmp/plugin.sock"}]

\* utils.go getEnv
getEnv(value, defaultValue) == IF value # "" THEN value ELSE defaultValue

\* utils.go getEnvInt: the default unless the value is set and strconv.Atoi
\* parses it.
getEnvInt(value, defaultValue) == IF value.kind = "int" THEN value.val ELSE defaultValue

\* utils.go loadConfig: if MaxDevices > 8 then 8; if MaxDevices < 1 then 1
clampMaxDevices(n) ==
    IF n > ModuleHardLimit THEN ModuleHardLimit
    ELSE IF n < 1 THEN 1 ELSE n

\* utils.go loadConfig, the fields validateConfig looks at
loadConfig(env) ==
    [MaxDevices   |-> clampMaxDevices(getEnvInt(env.MAX_DEVICES, ModuleHardLimit)),
     NodeName     |-> getEnv(env.NODE_NAME, ""),
     ResourceName |-> getEnv(env.RESOURCE_NAME, DefaultResourceName),
     SocketPath   |-> getEnv(env.SOCKET_PATH, DefaultSocketPath)]

ConfigError(msg) == [msg |-> msg, id |-> <<>>, cause |-> ""]

\* utils.go validateConfig with the upper limit it compares MaxDevices with:
\* the first failing check gives the error.
validateConfigWithin(config, limit) ==
    IF config.MaxDevices <= 0 \/ config.MaxDevices > limit
    THEN ConfigError("MAX_DEVICES out of range")
    ELSE IF config.NodeName = "" THEN ConfigError("NODE_NAME is required")
    ELSE IF config.ResourceName = "" THEN ConfigError("RESOURCE_NAME is required")
    ELSE IF config.SocketPath = "" THEN ConfigError("SOCKET_PATH is required")
    ELSE NoError

\* utils.go validateConfig (first variant, lines 111-129)
validateConfig(config) == validateConfigWithin(config, ModuleHardLimit)

\* utils.go validateConfig (second variant, lines 318-336)
validateConfigSecond(config) == validateConfigWithin(config, SecondValidateLimit)

\* main calls loadConfig
LoadConfig(env) ==
    /\ out' = [NoOut EXCEPT !.op = "loadConfig", !.req = <<env>>,
                            !.resp = <<loadConfig(env)>>]
    /\ PluginUnchanged
    /\ RegistryUnchanged

\* validateConfig is called on a configuration
ValidateConfig(config) ==
    /\ out' = [NoOut EXCEPT !.op = "validateConfig", !.req = <<config>>,
                            !.err = validateConfig(config)]
    /\ PluginUnchanged
    /\ RegistryUnchanged

ValidateConfigSecond(config) ==
    /\ out' = [NoOut EXCEPT !.op = "validateConfig", !.req = <<config>>,
                            !.err = validateConfigSecond(config)]
    /\ PluginUnchanged
    /\ RegistryUnchanged

\* The process before anything but its configuration has been touched.
InitConfig ==
    /\ nodes = [n \in Ordinals |-> "missing"]
    /\ devices = EmptyRegistry
    /\ phase = "new"
    /\ socketFile = "none"
    /\ server = "none"
    /\ registered = FALSE
    /\ kubelet = "accepting"
    /\ monitor = "off"
    /\ stopCh = "open"
    /\ updateCh = 0
    /\ streams = [s \in Streams |-> "idle"]
    /\ held = NoHandle
    /\ healthy = FALSE
    /\ module = NoModule
    /\ fallback = NoFallback
    /\ pods = NoPods
    /\ podsCompletedList = {}
    /\ mu = Unlocked(devices)
    /\ out = NoOut

NextConfig ==
    \/ \E env \in Environments : LoadConfig(env)
    \/ \E config \in Configs : ValidateConfig(config)

SpecConfig == InitConfig /\ [][NextConfig]_vars

NextConfigSecond ==
    \/ \E env \in Environments : LoadConfig(env)
    \/ \E config \in Configs : ValidateConfigSecond(config)

SpecConfigSecond == InitConfig /\ [][NextConfigSecond]_vars

\* C23: loadConfig yields MaxDevices clamped into [1, ModuleHardLimit] for
\* every value of MAX_DEVICES, and validateConfig accepts a configuration
\* exactly when its device count lies in [1, ModuleHardLimit] and NodeName,
\* ResourceName and SocketPath are non-empty.
C23_ConfigBounds ==
    /\ out.op = "loadConfig" =>
         /\ out.resp[1].MaxDevices \in 1 .. ModuleHardLimit
         /\ out.req[1].MAX_DEVICES.kind = "int" =>
              /\ out.req[1].MAX_DEVICES.val \in 1 .. ModuleHardLimit
                   => out.resp[1].MaxDevices = out.req[1].MAX_DEVICES.val
              /\ out.req[1].MAX_DEVICES.val < 1 => out.resp[1].MaxDevices = 1
              /\ out.req[1].MAX_DEVICES.val > ModuleHardLimit
                   => out.resp[1].MaxDevices = ModuleHardLimit
    /\ out.op = "validateConfig" =>
         ((out.err = NoError) <=>
            /\ out.req[1].MaxDevices \in 1 .. ModuleHardLimit
            /\ out.req[1].NodeName # ""
            /\ out.req[1].ResourceName # ""
            /\ out.req[1].SocketPath # "")

(***************************************************************************)
(* Properties of the module loader                                         *)
(***************************************************************************)

\* C24: whenever modprobe v4l2loopback is run, its video_nr parameter names
\* exactly the ordinals [start, start+MaxDevices) that CreateDevices(MaxDevices)
\* scans, with the configured buffer count and one exclusivity flag and one
\* label per device; when the load creates the nodes, a discovery would find
\* exactly the registry that is already there.
C24_ReloadIdentity ==
    (out.op = "RecoveryLoad" /\ out.req # <<>>) =>
        /\ CreatedOrdinals(out.req[1]) =
             VideoDeviceStartNumber .. (VideoDeviceStartNumber + MaxDevices - 1)
        /\ FromDecimal(out.req[1].max_buffers) = V4L2MaxBuffers
        /\ Len(Split(out.req[1].exclusive_caps)) = MaxDevices
        /\ \A i \in 1..MaxDevices :
             FromDecimal(Split(out.req[1].exclusive_caps)[i]) = V4L2ExclusiveCaps
        /\ Split(out.req[1].card_label) =
             [i \in 1..MaxDevices |-> <<"\"">> \o V4L2CardLabel \o <<"\"">>]
        /\ out.resp = <<TRUE>> => DiscoveredRegistry(MaxDevices) = devices

C24_Witness ==
    /\ out.op = "RecoveryLoad"
    /\ out.resp = <<TRUE>>
    /\ devices # EmptyRegistry
    /\ module.loaded

(***************************************************************************)
(* Allocation tracking: concurrent AllocateDevice and ReleaseDevice        *)
(***************************************************************************)

\* The allocation-tracking registry after the startup discovery.
InitAllocation ==
    /\ nodes \in [Ordinals -> NodeStates]
    /\ devices = DiscoveredRegistry(MaxDevices)
    /\ phase = "new"
    /\ socketFile = "none"
    /\ server = "none"
    /\ registered = FALSE
    /\ kubelet = "accepting"
    /\ monitor = "off"
    /\ stopCh = "open"
    /\ updateCh = 0
    /\ streams = [s \in Streams |-> "idle"]
    /\ held = NoHandle
    /\ healthy = (devices # EmptyRegistry)
    /\ module = NoModule
    /\ fallback = NoFallback
    /\ pods = NoPods
    /\ podsCompletedList = {}
    /\ mu = Unlocked(devices)
    /\ out = NoOut

\* Callers allocate and release in any order; each call runs under v.mu
\* from its first statement to its return.
NextAllocation ==
    \/ TrackingAllocateDevice
    \/ \E deviceID \in ReqIDs : ReleaseDevice(deviceID)

SpecAllocation == InitAllocation /\ [][NextAllocation]_vars

\* C25: AllocateDevice returns only a device that was free, which is
\* allocated from then on until a ReleaseDevice of that device, and it fails
\* with "no available devices" exactly when every registered device is
\* allocated.
C25_OneHolderPerDevice ==
    [][/\ (out'.op = "AllocateDevice" /\ out'.err = NoError)
            => /\ out'.resp[1].ID \in DOMAIN devices
               /\ ~devices[out'.resp[1].ID].Allocated
               /\ devices'[out'.resp[1].ID].Allocated
       /\ out'.op = "AllocateDevice"
            => ((out'.err = NoAvailableDevices)
                  <=> \A id \in DOMAIN devices : devices[id].Allocated)
       /\ \A id \in DOMAIN devices :
            (devices[id].Allocated /\ ~devices'[id].Allocated)
               => (out'.op = "ReleaseDevice" /\ out'.req = <<id>>)]_vars

C25_Witness ==
    /\ out.op = "AllocateDevice"
    /\ out.err = NoAvailableDevices
    /\ Cardinality(DOMAIN devices) = MaxDevices

(***************************************************************************)
(* Pod watch of the annotation-based variant (k8s_client.go)               *)
(***************************************************************************)

\* part_001 ReleaseDevice(deviceID) as a function of the registry.
ReleasedIn(registry, deviceID) ==
    IF deviceID \in DOMAIN registry
    THEN [registry EXCEPT ![deviceID].Allocated = FALSE]
    ELSE registry

\* part_001 MarkDeviceAsAllocated(deviceID) as a function of the registry.
MarkedIn(registry, deviceID) ==
    IF deviceID \in DOMAIN registry
    THEN [registry EXCEPT ![deviceID].Allocated = TRUE]
    ELSE registry

\* pod.Annotations["meeting-baas.io/video-device-id"] exists: the pod was
\* handed a device, whose id the annotation carries.
HasAnnotation(uid) == pods[uid].device # <<>>

\* The pods the API server lists with status.phase=Running.
RunningPods == {uid \in PodUIDs : pods[uid].phase = "Running"}

\* A pod starts on the node. One that asks for a video device gets the
\* device AllocateDevice picks (and does not start while there is none); its
\* annotation names that device.
PodAdmitted(uid, wants) ==
    /\ pods[uid].phase = "none"
    /\ IF wants
       THEN \E id \in Unallocated :
              /\ devices' = [devices EXCEPT ![id].Allocated = TRUE]
              /\ pods' = [pods EXCEPT ![uid] = [NoPod EXCEPT !.phase = "Running",
                                                             !.device = id]]
       ELSE /\ devices' = devices
            /\ pods' = [pods EXCEPT ![uid] = [NoPod EXCEPT !.phase = "Running"]]
    /\ out' = [NoOut EXCEPT !.op = "PodAdmitted", !.req = <<uid>>]
    /\ PluginUnchanged
    /\ UNCHANGED <<nodes, held, healthy, module, fallback, podsCompletedList, mu>>

\* k8s_client.go handlePodCompletion: the list of completed pods after it.
handlePodCompletionList(uid) ==
    IF HasAnnotation(uid) THEN podsCompletedList \cup {uid} ELSE podsCompletedList

\* k8s_client.go UpdateFunc and handlePodCompletion: a running pod turns
\* Succeeded or Failed; with the annotation its device is released and its
\* UID goes to the list of completed pods.
PodCompletes(uid, newPhase) ==
    /\ pods[uid].phase = "Running"
    /\ devices' = IF HasAnnotation(uid)
                  THEN ReleasedIn(devices, pods[uid].device) ELSE devices
    /\ podsCompletedList' = handlePodCompletionList(uid)
    /\ pods' = [pods EXCEPT ![uid].phase = newPhase,
                            ![uid].released = IF HasAnnotation(uid) THEN @ + 1 ELSE @]
    /\ out' = [NoOut EXCEPT !.op = "handlePodCompletion", !.req = <<uid>>,
                            !.resp = <<HasAnnotation(uid)>>]
    /\ PluginUnchanged
    /\ UNCHANGED <<nodes, held, healthy, module, fallback, mu>>

\* k8s_client.go handlePodDeletion: whether the deletion releases the device.
DeletionReleases(uid) == HasAnnotation(uid) /\ uid \notin podsCompletedList

\* k8s_client.go DeleteFunc and handlePodDeletion: a pod is deleted; a pod
\* in the list of completed pods is only taken off the list, any other pod
\* with the annotation has its device released.
PodDeleted(uid) ==
    /\ pods[uid].phase \in {"Running", "Succeeded", "Failed"}
    /\ devices' = IF DeletionReleases(uid)
                  THEN ReleasedIn(devices, pods[uid].device) ELSE devices
    /\ podsCompletedList' = IF HasAnnotation(uid)
                            THEN podsCompletedList \ {uid} ELSE podsCompletedList
    /\ pods' = [pods EXCEPT ![uid].phase = "deleted",
                            ![uid].released = IF DeletionReleases(uid) THEN @ + 1 ELSE @]
    /\ out' = [NoOut EXCEPT !.op = "handlePodDeletion", !.req = <<uid>>,
                            !.resp = <<DeletionReleases(uid)>>]
    /\ PluginUnchanged
    /\ UNCHANGED <<nodes, held, healthy, module, fallback, mu>>

\* The registry after performStartupReconciliation on a fresh registry: the
\* device named by the annotation of every running pod is marked allocated.
RECURSIVE Reconciled(_, _)
Reconciled(registry, uids) ==
    IF uids = {} THEN registry
    ELSE LET uid == CHOOSE u \in uids : TRUE
         IN Reconciled(IF HasAnnotation(uid) THEN MarkedIn(registry, pods[uid].device)
                       ELSE registry,
                       uids \ {uid})

\* The plugin's process is started again on the node while pods are there:
\* CreateDevices on a new registry, NewK8sClient with an empty list of
\* completed pods, and Start with performStartupReconciliation.
PluginRestart ==
    /\ pods # NoPods
    /\ devices' = Reconciled(DiscoveredRegistry(MaxDevices), RunningPods)
    /\ podsCompletedList' = {}
    /\ held' = Orphaned(held)
    /\ out' = [NoOut EXCEPT !.op = "PluginRestart"]
    /\ PluginUnchanged
    /\ UNCHANGED <<nodes, healthy, module, fallback, pods, mu>>

\* k8s_client.go startPeriodicReconciliation: every 5 minutes
\* performStartupReconciliation runs again on the registry as it is.
PeriodicReconciliation ==
    /\ devices' = Reconciled(devices, RunningPods)
    /\ out' = [NoOut EXCEPT !.op = "PeriodicReconciliation"]
    /\ PluginUnchanged
    /\ UNCHANGED <<nodes, held, healthy, module, fallback, pods, podsCompletedList, mu>>

\* The plugin has started on a node whose device nodes are all usable and
\* that runs no pod yet.
InitPodWatch ==
    /\ nodes = [n \in Ordinals |-> "ok"]
    /\ devices = DiscoveredRegistry(MaxDevices)
    /\ phase = "new"
    /\ socketFile = "none"
    /\ server = "none"
    /\ registered = FALSE
    /\ kubelet = "accepting"
    /\ monitor = "off"
    /\ stopCh = "open"
    /\ updateCh = 0
    /\ streams = [s \in Streams |-> "idle"]
    /\ held = NoHandle
    /\ healthy = (devices # EmptyRegistry)
    /\ module = NoModule
    /\ fallback = NoFallback
    /\ pods = NoPods
    /\ podsCompletedList = {}
    /\ mu = Unlocked(devices)
    /\ out = NoOut

\* The informer delivers the events of the pods one at a time.
NextPodWatch ==
    \/ \E uid \in PodUIDs, wants \in BOOLEAN : PodAdmitted(uid, wants)
    \/ \E uid \in PodUIDs, newPhase \in {"Succeeded", "Failed"} : PodCompletes(uid, newPhase)
    \/ \E uid \in PodUIDs : PodDeleted(uid)
    \/ PeriodicReconciliation
    \/ PluginRestart

SpecPodWatch == InitPodWatch /\ [][NextPodWatch]_vars

\* The device a running pod was handed is marked allocated.
InUseIsAllocated ==
    \A uid \in RunningPods :
        pods[uid].device \in DOMAIN devices => devices[pods[uid].device].Allocated

\* C26: for a pod with the video-device-id annotation ReleaseDevice is called
\* at most once over the pod's lifetime: after a release on the transition to
\* Succeeded or Failed the deletion of that pod releases nothing, so that the
\* device of a running pod stays allocated; the deletion of a pod that never
\* completed releases its device.
C26_ReleaseOncePerPod ==
    /\ [](\A uid \in PodUIDs : pods[uid].released <= 1)
    /\ []InUseIsAllocated
    /\ [][(out'.op = "handlePodDeletion" /\ pods[out'.req[1]].phase = "Running"
             /\ pods[out'.req[1]].device # <<>>)
            => (out'.resp = <<TRUE>>
                /\ (pods[out'.req[1]].device \in DOMAIN devices
                      => ~devices'[pods[out'.req[1]].device].Allocated))]_vars

(***************************************************************************)
(* Pod watch of the self-tracking variant (device_verifier.go)             *)
(***************************************************************************)

\* device_verifier.go podRequestsVideoDevices: a container of the pod
\* requests meeting-baas.io/video-devices, which is why it was handed one.
podRequestsVideoDevices(uid) == pods[uid].device # <<>>

\* A release that leaves every device as it is.
releaseNothing == devices

\* device_verifier.go releaseAllAllocatedDevices: ReleaseDevice on every
\* device that ListAllDevices reports allocated.
releaseAllAllocatedDevices ==
    [id \in DOMAIN devices |-> [devices[id] EXCEPT !.Allocated = FALSE]]

\* device_verifier.go UpdateFunc and handlePodCompletion: a running pod
\* turns Succeeded or Failed; on the transition to Succeeded of a pod that
\* requests video devices all allocated devices are released.
SelfTrackingPodCompletes(uid, newPhase) ==
    /\ pods[uid].phase = "Running"
    /\ devices' = IF newPhase = "Succeeded" /\ podRequestsVideoDevices(uid)
                  THEN releaseAllAllocatedDevices ELSE devices
    /\ pods' = [pods EXCEPT ![uid].phase = newPhase]
    /\ out' = [NoOut EXCEPT !.op = "handlePodCompletion", !.req = <<uid>>,
                 !.resp = <<newPhase = "Succeeded" /\ podRequestsVideoDevices(uid)>>]
    /\ PluginUnchanged
    /\ UNCHANGED <<nodes, held, healthy, module, fallback, podsCompletedList, mu>>

\* device_verifier.go DeleteFunc and handlePodDeletion: on the deletion of a
\* pod that requests video devices all allocated devices are released.
SelfTrackingPodDeleted(uid) ==
    /\ pods[uid].phase \in {"Running", "Succeeded", "Failed"}
    /\ devices' = IF podRequestsVideoDevices(uid)
                  THEN releaseAllAllocatedDevices ELSE devices
    /\ pods' = [pods EXCEPT ![uid].phase = "deleted"]
    /\ out' = [NoOut EXCEPT !.op = "handlePodDeletion", !.req = <<uid>>,
                 !.resp = <<podRequestsVideoDevices(uid)>>]
    /\ PluginUnchanged
    /\ UNCHANGED <<nodes, held, healthy, module, fallback, podsCompletedList, mu>>

NextSelfTracking ==
    \/ \E uid \in PodUIDs, wants \in BOOLEAN : PodAdmitted(uid, wants)
    \/ \E uid \in PodUIDs, newPhase \in {"Succeeded", "Failed"} :
          SelfTrackingPodCompletes(uid, newPhase)
    \/ \E uid \in PodUIDs : SelfTrackingPodDeleted(uid)

SpecSelfTracking == InitPodWatch /\ [][NextSelfTracking]_vars

\* C27: in the self-tracking variant the completion or the deletion of a pod
\* that requests video devices leaves every registered device free, whichever
\* pods are still running.
C27_ReleaseAllOnAnyPod ==
    [][(out'.op \in {"handlePodCompletion", "handlePodDeletion"} /\ out'.resp = <<TRUE>>)
          => \A id \in DOMAIN devices' : ~devices'[id].Allocated]_vars

\* C27 witness: after pod 1 went away, the device of the still running pod 2
\* was marked free and has been handed to pod 3 as well.
C27_Witness ==
    /\ pods[1].phase \in {"Succeeded", "deleted"}
    /\ pods[1].device # <<>>
    /\ pods[2].phase = "Running"
    /\ pods[3].phase = "Running"
    /\ pods[2].device # <<>>
    /\ pods[2].device # pods[1].device
    /\ pods[3].device = pods[2].device

(***************************************************************************)
(* The registry's lock: CreateDevices statement by statement, and readers  *)
(***************************************************************************)

\* A read lock that is granted whoever holds the lock.
RLockUnguarded == TRUE

\* v.mu.RLock() is granted: no CreateDevices is between Lock and Unlock.
RLock == ~mu.writer

\* v4l2_manager.go CreateDevices, v.mu.Lock() and
\* v.devices = make(map[string]*VideoDevice): the writer has the lock and the
\* map is empty.
CreateDevicesLock(count) ==
    /\ ~mu.writer
    /\ mu' = [mu EXCEPT !.writer = TRUE, !.i = 0, !.count = count, !.served = FALSE]
    /\ devices' = EmptyRegistry
    /\ held' = Orphaned(held)
    /\ out' = [NoOut EXCEPT !.op = "CreateDevices.Lock", !.req = <<count>>]
    /\ PluginUnchanged
    /\ UNCHANGED <<nodes, healthy, module, fallback, pods, podsCompletedList>>

\* The map after v.devices[deviceID] = device for ordinal n.
WithDevice(registry, n) ==
    [id \in DOMAIN registry \cup {DeviceID(n)} |->
        IF id = DeviceID(n) THEN VideoDevice(DeviceID(n), DevicePath(n), FALSE)
        ELSE registry[id]]

\* v4l2_manager.go CreateDevices, one iteration of the loop: the node of
\* ordinal start+i is registered when it exists and is readable.
CreateDevicesScan ==
    /\ mu.writer
    /\ mu.i < mu.count
    /\ devices' = IF NodeUsable(DevicePath(VideoDeviceStartNumber + mu.i))
                  THEN WithDevice(devices, VideoDeviceStartNumber + mu.i)
                  ELSE devices
    /\ mu' = [mu EXCEPT !.i = @ + 1]
    /\ out' = [NoOut EXCEPT !.op = "CreateDevices.Scan"]
    /\ PluginUnchanged
    /\ UNCHANGED <<nodes, held, healthy, module, fallback, pods, podsCompletedList>>

\* v4l2_manager.go CreateDevices, the return after the loop: the error for
\* an empty map, and the deferred v.mu.Unlock().
CreateDevicesUnlock ==
    /\ mu.writer
    /\ mu.i = mu.count
    /\ mu' = [mu EXCEPT !.writer = FALSE, !.i = 0, !.count = 0, !.complete = devices]
    /\ out' = [NoOut EXCEPT !.op = "CreateDevices", !.req = <<mu.count, {}>>,
                 !.err = IF devices = EmptyRegistry THEN NoDevicesFound ELSE NoError]
    /\ PluginUnchanged
    /\ UNCHANGED <<nodes, devices, held, healthy, module, fallback, pods, podsCompletedList>>

\* A reader calls one of the registry's lookups while CreateDevices holds the
\* lock: its v.mu.RLock() blocks.
ReaderArrives ==
    /\ mu.writer
    /\ ~mu.waiting
    /\ mu' = [mu EXCEPT !.waiting = TRUE]
    /\ out' = [NoOut EXCEPT !.op = "RLock"]
    /\ PluginUnchanged
    /\ UNCHANGED <<nodes, devices, held, healthy, module, fallback, pods, podsCompletedList>>

\* A lookup from v.mu.RLock() to the deferred v.mu.RUnlock(): it runs once
\* the read lock is granted, and answers from the map as it is then.
LockedRead(op, req, err, resp) ==
    /\ RLock
    /\ mu' = [mu EXCEPT !.waiting = FALSE, !.served = mu.waiting]
    /\ out' = [NoOut EXCEPT !.op = op, !.req = req, !.err = err, !.resp = resp]
    /\ PluginUnchanged
    /\ UNCHANGED <<nodes, devices, held, healthy, module, fallback, pods, podsCompletedList>>

LockedGetDeviceByID(deviceID) ==
    LockedRead("GetDeviceByID", <<deviceID>>, GetDeviceByIDResult(deviceID).err,
               IF GetDeviceByIDResult(deviceID).err = NoError
               THEN <<GetDeviceByIDResult(deviceID).rec>> ELSE <<>>)

LockedListAllDevices == LockedRead("ListAllDevices", <<>>, NoError, <<ListAllDevices>>)

LockedGetDeviceCount(maxDevices) ==
    LockedRead("GetDeviceCount", <<maxDevices>>, NoError, <<GetDeviceCount(maxDevices)>>)

LockedGetDeviceHealth(deviceID) ==
    LockedRead("GetDeviceHealth", <<deviceID>>, NoError, <<GetDeviceHealth(deviceID)>>)

\* CreateDevices and the lookups run on goroutines of their own; the device
\* nodes come and go meanwhile.
NextLocked ==
    \/ \E n \in Ordinals, st \in NodeStates : NodeChange(n, st)
    \/ \E count \in 1..MaxDevices : CreateDevicesLock(count)
    \/ CreateDevicesScan
    \/ CreateDevicesUnlock
    \/ ReaderArrives
    \/ \E deviceID \in ReqIDs : LockedGetDeviceByID(deviceID)
    \/ LockedListAllDevices
    \/ \E maxDevices \in 1..MaxDevices : LockedGetDeviceCount(maxDevices)
    \/ \E deviceID \in ReqIDs : LockedGetDeviceHealth(deviceID)

SpecLocked == Init /\ [][NextLocked]_vars

\* The lookups the registry offers to readers.
ReaderOps == {"GetDeviceByID", "ListAllDevices", "GetDeviceCount", "GetDeviceHealth"}

\* C28: a GetDeviceByID, ListAllDevices, GetDeviceCount or GetDeviceHealth
\* call, also one that was called while CreateDevices was replacing the
\* device set, answers from a complete device set, the one the last finished
\* CreateDevices left: never from the emptied or half filled map.
C28_ReaderAtomicity ==
    [][out'.op \in ReaderOps =>
         /\ devices = mu.complete
         /\ out'.op = "ListAllDevices" => DOMAIN out'.resp[1] = DOMAIN mu.complete
         /\ out'.op = "GetDeviceByID"
              => (out'.err = NoError <=> out'.req[1] \in DOMAIN mu.complete)
         /\ (out'.op = "GetDeviceCount" /\ mu.complete # EmptyRegistry)
              => out'.resp = <<Cardinality(DOMAIN mu.complete)>>
         /\ (out'.op = "GetDeviceHealth" /\ out'.resp = <<TRUE>>)
              => out'.req[1] \in DOMAIN mu.complete]_vars

\* C28 witness: a ListAllDevices that was called while CreateDevices held the
\* lock has returned, with the two devices of the finished replacement.
C28_Witness ==
    /\ out.op = "ListAllDevices"
    /\ mu.served
    /\ Cardinality(DOMAIN out.resp[1]) = 2
    /\ DOMAIN out.resp[1] = DOMAIN mu.complete

(***************************************************************************)
(* Capability checks                                                       *)
(***************************************************************************)

\* A caller probes a path; probe is what v4l2-ctl did this time.
CallHasVideoCaptureCapability(path, probe) ==
    /\ out' = [NoOut EXCEPT !.op = "HasVideoCaptureCapability", !.req = <<path, probe>>,
                            !.resp = <<Classify(probe)>>]
    /\ PluginUnchanged
    /\ RegistryUnchanged

\* A caller asks CheckAllDevicesCapabilities(maxDevices, timeoutSeconds).
CallCheckAllDevicesCapabilities(maxDevices) ==
    /\ out' = [NoOut EXCEPT !.op = "CheckAllDevicesCapabilities", !.req = <<maxDevices>>,
                            !.list = CheckAllDevicesCapabilities(maxDevices)]
    /\ PluginUnchanged
    /\ RegistryUnchanged

\* The paths a caller may probe.
ProbePaths == {DevicePath(VideoDeviceStartNumber), BogusPath}

NextCapabilities ==
    \/ \E n \in Ordinals, st \in NodeStates : NodeChange(n, st)
    \/ \E count \in 1..MaxDevices : CreateDevices(count, {})
    \/ \E path \in ProbePaths, probe \in ProbeResults :
          CallHasVideoCaptureCapability(path, probe)
    \/ \E maxDevices \in 1..MaxDevices : CallCheckAllDevicesCapabilities(maxDevices)

SpecCapabilities == Init /\ [][NextCapabilities]_vars

\* The paths of the registered devices.
RegisteredPaths == {devices[id].Path : id \in DOMAIN devices}

\* C32: CheckAllDevicesCapabilities reports exactly the registered devices
\* whose capability probe fails, whatever number of devices the discovery
\* registered (stated for a registry that a discovery has filled).
C32_CheckedSetIsRegistry ==
    (out.op = "CheckAllDevicesCapabilities" /\ devices # << >>)
      => out.list = {path \in RegisteredPaths : ~HasVideoCaptureCapability(path)}

\* C33: HasVideoCaptureCapability answers true exactly when the probe exited
\* with success before the deadline and printed "Video Capture"; a timeout,
\* a non-zero exit or a probe that could not be started gives false, and the
\* call returns its answer without an error and without changing anything.
C33_ProbeClassification ==
    [][out'.op = "HasVideoCaptureCapability" =>
         /\ out'.resp = <<out'.req[2].err = "none" /\ "Video Capture" \in out'.req[2].output>>
         /\ out'.req[2].err \in {"timeout", "exit", "start"} => out'.resp = <<FALSE>>
         /\ out'.err = NoError
         /\ UNCHANGED <<nodes, devices, phase, healthy, module>>]_vars

\* C33 witness: a probe that timed out after printing "Video Capture" was
\* answered false.
C33_Witness ==
    /\ out.op = "HasVideoCaptureCapability"
    /\ out.req[2] = [err |-> "timeout", output |-> {"Video Capture"}]
    /\ out.resp = <<FALSE>>

(***************************************************************************)
(* The update signal of Allocate                                           *)
(***************************************************************************)

\* An Allocate call that handed out a device has just returned.
AllocateSucceeded(o) ==
    o.op = "Allocate" /\ o.err = NoError /\ \E i \in 1..Len(o.req) : Len(o.req[i]) > 0

\* C34: updateCh never holds more than one signal; a running plugin can
\* always complete an Allocate call, whatever the streams do and whether or
\* not a signal is pending; after a successful Allocate one signal is
\* pending, so a signal raised onto a pending one is dropped.
C34_UpdateSignalNeverBlocks ==
    /\ [](updateCh \in {0, 1})
    /\ [](phase = "running" => \A deviceID \in ReqIDs : ENABLED Allocate(<<<<deviceID>>>>))
    /\ [][AllocateSucceeded(out') => updateCh' = 1 /\ UNCHANGED streams]_vars

\* C34 witness: Allocate returned a device while no stream was open; the
\* channel holds one signal.
C34_Witness ==
    /\ AllocateSucceeded(out)
    /\ updateCh = 1
    /\ \A s \in DOMAIN streams : streams[s] = "idle"

(***************************************************************************)
(* Allocation tracking: the counts                                         *)
(***************************************************************************)

\* part_001 GetAllocatedDeviceCount: the records with the Allocated bit set.
GetAllocatedDeviceCount == Cardinality({id \in DOMAIN devices : devices[id].Allocated})

\* part_001 GetDeviceStatus: allocatedCount is counted over the records,
\* TotalDevices is len(v.devices), AvailableDevices their difference.
GetDeviceStatus ==
    LET allocatedCount == Cardinality({id \in DOMAIN devices : devices[id].Allocated})
    IN  [TotalDevices |-> Cardinality(DOMAIN devices),
         AvailableDevices |-> Cardinality(DOMAIN devices) - allocatedCount,
         AllocatedDevices |-> allocatedCount,
         Devices |-> {VideoDevice(devices[id].ID, devices[id].Path, devices[id].Allocated) :
                        id \in DOMAIN devices}]

CallGetAllocatedDeviceCount ==
    /\ out' = [NoOut EXCEPT !.op = "GetAllocatedDeviceCount",
                            !.resp = <<GetAllocatedDeviceCount>>]
    /\ PluginUnchanged
    /\ RegistryUnchanged

CallGetDeviceStatus ==
    /\ out' = [NoOut EXCEPT !.op = "GetDeviceStatus", !.resp = <<GetDeviceStatus>>]
    /\ PluginUnchanged
    /\ RegistryUnchanged

NextBookkeeping ==
    \/ TrackingAllocateDevice
    \/ \E deviceID \in ReqIDs \cup {<<>>} : ReleaseDevice(deviceID)
    \/ \E deviceID \in ReqIDs \cup {<<>>} : MarkDeviceAsAllocated(deviceID)
    \/ CallGetAllocatedDeviceCount
    \/ CallGetDeviceStatus
    \/ CallTrackingGetDeviceCount
    \/ \E n \in Ordinals, st \in {"missing", "ok"} : NodeChange(n, st)

SpecBookkeeping == InitAllocation /\ [][NextBookkeeping]_vars

\* The id of a call is the key of a registered device.
KnownID(o) == o.req[1] \in DOMAIN devices

\* C35: in every state reached by AllocateDevice, MarkDeviceAsAllocated and
\* ReleaseDevice calls, GetDeviceStatus reports available + allocated =
\* total with as many devices listed as allocated as it counts, and
\* 0 <= GetAllocatedDeviceCount <= GetDeviceCount; ReleaseDevice of a free
\* device and MarkDeviceAsAllocated of an allocated one return nil and
\* change nothing; both return an error and change nothing for an id that
\* is not registered.
C35_TrackingBookkeeping ==
    /\ [](/\ GetDeviceStatus.AvailableDevices + GetDeviceStatus.AllocatedDevices
               = GetDeviceStatus.TotalDevices
          /\ GetDeviceStatus.AvailableDevices >= 0
          /\ Cardinality({d \in GetDeviceStatus.Devices : d.Allocated})
               = GetDeviceStatus.AllocatedDevices
          /\ 0 <= GetAllocatedDeviceCount
          /\ GetAllocatedDeviceCount <= TrackingGetDeviceCount)
    /\ [][/\ (out'.op = "ReleaseDevice" /\ KnownID(out') /\ ~devices[out'.req[1]].Allocated)
               => out'.err = NoError /\ UNCHANGED devices
          /\ (out'.op = "MarkDeviceAsAllocated" /\ KnownID(out')
                /\ devices[out'.req[1]].Allocated)
               => out'.err = NoError /\ UNCHANGED devices
          /\ (out'.op \in {"ReleaseDevice", "MarkDeviceAsAllocated"} /\ ~KnownID(out'))
               => out'.err # NoError /\ UNCHANGED devices]_vars

\* C35 witness: ReleaseDevice returned nil for a registered device, which is
\* free, while the other of the two devices is allocated.
C35_Witness ==
    /\ out.op = "ReleaseDevice"
    /\ KnownID(out)
    /\ out.err = NoError
    /\ ~devices[out.req[1]].Allocated
    /\ GetAllocatedDeviceCount = 1
    /\ GetDeviceStatus.TotalDevices = 2

(***************************************************************************)
(* Cleanup of the fallback files                                           *)
(***************************************************************************)

\* C36: CleanupFallbackDevices removes no real device node, removes only
\* files that EnableFallbackMode created, and removes nothing when fallback
\* mode was never enabled.
C36_CleanupOnlyFallbackFiles ==
    [][out'.op = "CleanupFallbackDevices" =>
         /\ nodes' = nodes
         /\ fallback'.files \subseteq fallback.files
         /\ ~fallback.mode => fallback'.files = fallback.files]_vars

(***************************************************************************)
(* A discovery that finds nothing                                          *)
(***************************************************************************)

\* The stateless registry with its discovery, its lookups and its queries.
NextRediscovery ==
    \/ \E n \in Ordinals, st \in NodeStates : NodeChange(n, st)
    \/ \E count \in 1..MaxDevices : CreateDevices(count, {})
    \/ \E deviceID \in ReqIDs : CallGetDeviceByID(deviceID)
    \/ \E maxDevices \in 1..MaxDevices : CallIsHealthy(maxDevices)
    \/ \E maxDevices \in 1..MaxDevices : CallGetDeviceCount(maxDevices)

SpecRediscovery == Init /\ [][NextRediscovery]_vars

\* The nodes /dev/video<start+i>, i < maxDevices, by number.
SystemRange(maxDevices) == VideoDeviceStartNumber .. (VideoDeviceStartNumber + maxDevices - 1)

\* C37: a CreateDevices that fails with "no video devices were found" leaves
\* the registry empty, whatever it held before; on an empty registry
\* GetDeviceByID answers not-found for every id, GetDeviceCount counts the
\* existing nodes of the range and IsHealthy tests the nodes of the range.
C37_FailedDiscoveryClearsRegistry ==
    /\ [][(out'.op = "CreateDevices" /\ out'.err # NoError)
            => out'.err = NoDevicesFound /\ devices' = EmptyRegistry]_vars
    /\ []((out.op = "GetDeviceByID" /\ devices = EmptyRegistry)
            => out.err = DeviceNotFound(out.req[1]) /\ out.resp = <<>>)
    /\ []((out.op = "GetDeviceCount" /\ devices = EmptyRegistry)
            => out.resp = <<Cardinality({n \in SystemRange(out.req[1]) :
                                           nodes[n] # "missing"})>>)
    /\ []((out.op = "IsHealthy" /\ devices = EmptyRegistry)
            => out.resp = <<\A n \in SystemRange(out.req[1]) :
                               nodes[n] \in {"stuck", "ok"}>>)

\* C37 witness: CreateDevices failed while a caller holds the record of a
\* device it had looked up; the registry is empty and a lookup of that id
\* answers not-found.
C37_Witness ==
    /\ out.op = "CreateDevices"
    /\ out.err = NoDevicesFound
    /\ held.kind = "record"
    /\ held.from = "GetDeviceByID"
    /\ devices = EmptyRegistry
    /\ GetDeviceByIDResult(held.key).err = DeviceNotFound(held.key)

====
